---- MODULE Spec2Model ----
(***************************************************************************)
(* Model of the programmatic-seo-framework core:                           *)
(*   - BlogRegistry (src/src/lib/blog-registry.ts): published-blog index,  *)
(*     used cover photos, filesystem sync, photo allocation;               *)
(*   - UniquenessEngine / ContentGenerator / OllamaContentGenerator        *)
(*     (src/src/lib/content-generator.ts, src/unnamed/part_000): angle     *)
(*     tracking, brief generation, bounded regeneration.                   *)
(* Strings the code normalises (slugs, categories) are sequences of        *)
(* one-character strings; URLs are sequences of tokens.                    *)
(***************************************************************************)
EXTENDS Integers, Sequences, FiniteSets, TLC

\* ---------------------------------------------------------------------------
\* Generic helpers
\* ---------------------------------------------------------------------------

Range(s) == { s[i] : i \in 1..Len(s) }

Includes(s, x) == \E i \in 1..Len(s) : s[i] = x

NoDuplicates(s) == \A i, j \in 1..Len(s) : i # j => s[i] # s[j]

RECURSIVE Flat(_)
Flat(ss) == IF ss = <<>> THEN <<>> ELSE Head(ss) \o Flat(Tail(ss))

RECURSIVE FilterOut(_, _)
FilterOut(s, bad) ==
  IF s = <<>> THEN <<>>
  ELSE IF Head(s) \in bad THEN FilterOut(Tail(s), bad)
       ELSE <<Head(s)>> \o FilterOut(Tail(s), bad)

\* [...new Set(arr)]: first occurrences, in order.
RECURSIVE Dedupe(_)
Dedupe(s) ==
  IF s = <<>> THEN <<>>
  ELSE LET d == Dedupe(SubSeq(s, 1, Len(s) - 1))
       IN IF Includes(d, s[Len(s)]) THEN d ELSE Append(d, s[Len(s)])

\* JavaScript null / a failed regex match: the empty option.
None == <<>>
Some(x) == <<x>>

\* ---------------------------------------------------------------------------
\* Characters
\* ---------------------------------------------------------------------------

LowerLetters ==
  { "a","b","c","d","e","f","g","h","i","j","k","l","m",
    "n","o","p","q","r","s","t","u","v","w","x","y","z" }

Digits == { "0","1","2","3","4","5","6","7","8","9" }

\* String.prototype.toLowerCase on the characters the inputs use.
toLowerCaseChar(c) ==
  CASE c = "A" -> "a" [] c = "B" -> "b" [] c = "C" -> "c" [] c = "N" -> "n"
    [] c = "Q" -> "q" [] c = "Y" -> "y" [] OTHER -> c

toLowerCase(s) == [ i \in 1..Len(s) |-> toLowerCaseChar(s[i]) ]

\* s.replace(/[^...]/g, ''): keep the characters of `keep`, in order.
RECURSIVE KeepChars(_, _)
KeepChars(s, keep) ==
  IF s = <<>> THEN <<>>
  ELSE IF Head(s) \in keep THEN <<Head(s)>> \o KeepChars(Tail(s), keep)
       ELSE KeepChars(Tail(s), keep)

\* ---------------------------------------------------------------------------
\* blog-registry.ts: configuration
\* ---------------------------------------------------------------------------

P_BLOCKED == "photo-1560518883-ce09059eeffa"
P_SKYLINE == "photo-1534430480872-3498386e7856"   \* nyc[0] and manhattan[0]
P_URBAN   == "photo-1570168007204-dfb528c6958f"   \* nyc and queens[0]
P_CITY    == "photo-1582407947304-fd86f028f716"   \* nyc and real-estate[0]
P_BKLYN   == "photo-1558981403-c5f9899a28bc"      \* brooklyn[0]
P_MANH    == "photo-1555883006-0f5a0915a80f"      \* manhattan[1]
P_QUEENS  == "photo-1583608205776-bfd35f0d9f83"   \* queens[1]
P_SEATTLE == "photo-1502175353174-a7a70e73b362"   \* seattle[0]
P_DEAL    == "photo-1560185007-c5ca9d2c014d"      \* real-estate[2]
\* A photo id that occurs in a blog file but in no bucket of the library.
P_FOREIGN == "photo-1449824913935-59a10b8d2000"

BLOCKED_PHOTO_IDS == << P_BLOCKED >>

K_nyc        == << "n","y","c" >>
K_brooklyn   == << "b","r","o","o","k","l","y","n" >>
K_manhattan  == << "m","a","n","h","a","t","t","a","n" >>
K_queens     == << "q","u","e","e","n","s" >>
K_seattle    == << "s","e","a","t","t","l","e" >>
K_realestate == << "r","e","a","l","-","e","s","t","a","t","e" >>

LibraryKeys == << K_nyc, K_brooklyn, K_manhattan, K_queens, K_seattle, K_realestate >>

\* The curated library, scaled down: every bucket keeps its first entries and
\* the overlaps between buckets that the real library has (nyc/manhattan,
\* nyc/queens, nyc/real-estate); the blocked photo is in no bucket.
COVER_PHOTO_LIBRARY(key) ==
  CASE key = K_nyc        -> << P_SKYLINE, P_URBAN, P_CITY >>
    [] key = K_brooklyn   -> << P_BKLYN >>
    [] key = K_manhattan  -> << P_SKYLINE, P_MANH >>
    [] key = K_queens     -> << P_URBAN, P_QUEENS >>
    [] key = K_seattle    -> << P_SEATTLE >>
    [] key = K_realestate -> << P_CITY, P_DEAL >>
    [] OTHER              -> << >>          \* COVER_PHOTO_LIBRARY[cat] || []

\* Object.values(COVER_PHOTO_LIBRARY).flat()
AllLibraryPhotos == Flat([ i \in 1..Len(LibraryKeys) |-> COVER_PHOTO_LIBRARY(LibraryKeys[i]) ])

PhotoIds ==
  Range(AllLibraryPhotos) \cup Range(BLOCKED_PHOTO_IDS) \cup { P_FOREIGN }

\* ---------------------------------------------------------------------------
\* URLs: token sequences.  /photo-[a-zA-Z0-9_-]+/ matches the first token
\* that is a photo id; "?..." and the host never match.
\* ---------------------------------------------------------------------------

URL_HOST  == "https://images.unsplash.com/"
URL_QUERY == "?w=1200&auto=format&fit=crop"

PhotoUrl(photoId) == << URL_HOST, photoId, URL_QUERY >>

RECURSIVE PhotoIdMatch(_)
PhotoIdMatch(url) ==
  IF url = <<>> THEN None
  ELSE IF Head(url) \in PhotoIds THEN Some(Head(url))
       ELSE PhotoIdMatch(Tail(url))


\* ---------------------------------------------------------------------------
\* Inputs of the registry: slugs, blog files, documents, categories
\* ---------------------------------------------------------------------------

S_a_b   == << "a", "-", "b" >>          \* "a-b"
S_A_B   == << "A", "-", "B" >>          \* "A-B": differs in letter case
S_ab    == << "a", "b" >>               \* "ab": differs in the hyphen
S_abx   == << "a", "-", "b", "!" >>     \* "a-b!": differs in other punctuation

SlugInputs == { S_a_b, S_A_B, S_ab, S_abx }

\* A markdown file of a content tree, as extractBlogInfo sees it: whether the
\* file name passes the usta-react filter (no TEMPLATE/README), whether content
\* or name contains 'geographic-farming', the `slug:` line and the
\* `featuredImage:` line when present.
MdFile(named, marker, slug, image) ==
  [ named |-> named, marker |-> marker, slug |-> slug, image |-> image ]

F_ab_sky     == MdFile("post", TRUE, Some(S_a_b), Some(PhotoUrl(P_SKYLINE)))
F_AB_blocked == MdFile("post", TRUE, Some(S_A_B), Some(PhotoUrl(P_BLOCKED)))
F_ab_foreign == MdFile("post", TRUE, Some(S_a_b), Some(PhotoUrl(P_FOREIGN)))
F_abx_sky    == MdFile("post", TRUE, Some(S_abx), Some(PhotoUrl(P_SKYLINE)))
F_template   == MdFile("TEMPLATE", TRUE, Some(S_ab), Some(<< "/images/cover.jpg" >>))
F_nomarker   == MdFile("post", FALSE, Some(S_abx), None)
F_noslug     == MdFile("post", TRUE, None, Some(PhotoUrl(P_FOREIGN)))

Trees(usta, seo) == [ usta |-> usta, seo |-> seo ]

\* The contents the two trees grow towards, file by file.
TreeInputs ==
  { Trees(<< F_ab_sky >>, << F_AB_blocked >>),
    Trees(<< F_ab_sky, F_ab_foreign >>, << >>),
    Trees(<< F_ab_sky >>, << F_ab_foreign, F_template >>),
    Trees(<< F_template, F_nomarker >>, << F_noslug >>),
    Trees(<< >>, << F_ab_sky, F_abx_sky >>) }

IsPrefix(s, t) == Len(s) <= Len(t) /\ SubSeq(t, 1, Len(s)) = s

MaxBlogs == 2

\* Omit<PublishedBlog, 'source'>: slug and coverPhotoId ('' = no photo); the
\* location and date fields are carried along unread by the operations below.
BlogInputs == [ slug : { S_a_b, S_A_B, S_ab }, coverPhotoId : { "", P_SKYLINE, P_BLOCKED } ]

CategoryInputs ==
  { K_nyc, << "N","Y","C" >>, K_brooklyn, K_manhattan, << "Q","u","e","e","n","s","1" >>,
    K_seattle, K_realestate, << "r","e","a","l"," ","e","s","t","a","t","e" >> }

\* ---------------------------------------------------------------------------
\* State
\* ---------------------------------------------------------------------------

VARIABLES
  ustaFiles,        \* files of USTA_BLOG_DIR, in readdir order
  seoFiles,         \* files of SEO_BLOG_DIR, in readdir order
  data,             \* BlogRegistry.data: publishedBlogs, usedCoverPhotos
  snapshot,         \* content of REGISTRY_PATH as last written by save()
  lastUrl,          \* result of the last getUniqueCoverPhoto not yet reserved
  allocated,        \* history: ids returned by getUniqueCoverPhoto and then reserved
  exhaustedAtCall,  \* history: some getUniqueCoverPhoto ran with every bucket used up
  tookFallback,     \* history: the last getUniqueCoverPhoto took the random branch
  registeredSlugs,  \* history: slugs passed to registerBlog since the last sync
  droppedBySync     \* history: whether the sync that has just returned removed a
                    \*          photo id, a slug (reset by the next call)

registryVars ==
  << ustaFiles, seoFiles, data, snapshot, lastUrl, allocated,
     exhaustedAtCall, tookFallback, registeredSlugs,
                  droppedBySync >>

\* ---------------------------------------------------------------------------
\* blog-registry.ts: operations on the registry record
\* ---------------------------------------------------------------------------

RegistryData(blogs, photos) == [ publishedBlogs |-> blogs, usedCoverPhotos |-> photos ]

\* extractBlogInfo: null unless the file is a geo-farming blog with a slug line;
\* coverPhotoId is the photo id matched in the featuredImage value, else ''.
extractBlogInfo(file, source) ==
  IF ~file.marker THEN None
  ELSE IF file.slug = None THEN None
  ELSE LET m == IF file.image = None THEN None ELSE PhotoIdMatch(file.image[1])
       IN Some([ slug |-> file.slug[1],
                 coverPhotoId |-> IF m = None THEN "" ELSE m[1],
                 source |-> source ])

\* The usta-react loop: every recognised file is pushed, and so is its photo.
RECURSIVE ScanUsta(_, _)
ScanUsta(files, acc) ==
  IF files = <<>> THEN acc
  ELSE LET f == Head(files)
           info == IF f.named = "post" THEN extractBlogInfo(f, "usta-react") ELSE None
           next == IF info = None THEN acc
                   ELSE RegistryData(
                          Append(acc.publishedBlogs, info[1]),
                          IF info[1].coverPhotoId # ""
                            THEN Append(acc.usedCoverPhotos, info[1].coverPhotoId)
                            ELSE acc.usedCoverPhotos)
       IN ScanUsta(Tail(files), next)

\* The seo loop: a blog is pushed unless a record with the same slug exists,
\* a photo unless it is already listed.
RECURSIVE ScanSeo(_, _)
ScanSeo(files, acc) ==
  IF files = <<>> THEN acc
  ELSE LET info == extractBlogInfo(Head(files), "seo")
           next == IF info = None THEN acc
                   ELSE RegistryData(
                          IF \E i \in 1..Len(acc.publishedBlogs) :
                               acc.publishedBlogs[i].slug = info[1].slug
                            THEN acc.publishedBlogs
                            ELSE Append(acc.publishedBlogs, info[1]),
                          IF info[1].coverPhotoId # ""
                             /\ ~Includes(acc.usedCoverPhotos, info[1].coverPhotoId)
                            THEN Append(acc.usedCoverPhotos, info[1].coverPhotoId)
                            ELSE acc.usedCoverPhotos)
       IN ScanSeo(Tail(files), next)

\* syncWithFilesystem scanning into the lists of the record it is called on.
syncStart_FromRecord(d) == d

\* const existingBlogs = [], existingPhotos = []: the lists the scan starts
\* from, whatever the record holds.
syncStart(d) == RegistryData(<<>>, <<>>)

\* The two loops from the lists `start`, then the deduplication.
syncDataFrom(start, usta, seo) ==
  LET scanned == ScanSeo(seo, ScanUsta(usta, start))
  IN RegistryData(scanned.publishedBlogs, Dedupe(scanned.usedCoverPhotos))

\* syncWithFilesystem, up to the save: the record rebuilt from the two trees.
syncData(usta, seo) == syncDataFrom(RegistryData(<<>>, <<>>), usta, seo)

NothingDropped == [ photo |-> FALSE, slug |-> FALSE ]

\* Whether a record lost a photo id, a slug, going from `before` to `after`.
Dropped(before, after) ==
  [ photo |-> Range(before.usedCoverPhotos) \ Range(after.usedCoverPhotos) # {},
    slug |-> { before.publishedBlogs[i].slug : i \in 1..Len(before.publishedBlogs) }
               \ { after.publishedBlogs[i].slug : i \in 1..Len(after.publishedBlogs) } # {} ]

\* hasSlug comparing the stored slug as written (the way the sync loop does).
hasSlug_Exact(d, slug) ==
  \E i \in 1..Len(d.publishedBlogs) : d.publishedBlogs[i].slug = slug

normalizeSlug(slug) == KeepChars(toLowerCase(slug), LowerLetters \cup Digits \cup { "-" })

hasSlug(d, slug) ==
  \E i \in 1..Len(d.publishedBlogs) :
    normalizeSlug(d.publishedBlogs[i].slug) = normalizeSlug(slug)

isPhotoUsed(d, photoId) ==
  Includes(d.usedCoverPhotos, photoId) \/ Includes(BLOCKED_PHOTO_IDS, photoId)

\* registerBlog pushing the photo without the includes() guard.
registerBlogData_NoPhotoGuard(d, blog) ==
  RegistryData(
    IF \E i \in 1..Len(d.publishedBlogs) : d.publishedBlogs[i].slug = blog.slug
      THEN d.publishedBlogs
      ELSE Append(d.publishedBlogs,
                  [ slug |-> blog.slug, coverPhotoId |-> blog.coverPhotoId, source |-> "seo" ]),
    IF blog.coverPhotoId # "" THEN Append(d.usedCoverPhotos, blog.coverPhotoId)
    ELSE d.usedCoverPhotos)

registerBlogData(d, blog) ==
  LET photos == IF blog.coverPhotoId # "" /\ ~Includes(d.usedCoverPhotos, blog.coverPhotoId)
                  THEN Append(d.usedCoverPhotos, blog.coverPhotoId)
                  ELSE d.usedCoverPhotos
      blogs == IF ~hasSlug(d, blog.slug)
                 THEN Append(d.publishedBlogs,
                             [ slug |-> blog.slug, coverPhotoId |-> blog.coverPhotoId,
                               source |-> "seo" ])
                 ELSE d.publishedBlogs
  IN RegistryData(blogs, photos)

reserveCoverPhotoData(d, photoUrl) ==
  LET m == PhotoIdMatch(photoUrl)
  IN IF m # None /\ ~Includes(d.usedCoverPhotos, m[1])
       THEN RegistryData(d.publishedBlogs, Append(d.usedCoverPhotos, m[1]))
       ELSE d


\* Photos of the tried buckets in order, then the first one neither blocked
\* nor used.
RECURSIVE FirstFree(_, _)
FirstFree(photos, used) ==
  IF photos = <<>> THEN None
  ELSE IF Includes(BLOCKED_PHOTO_IDS, Head(photos)) THEN FirstFree(Tail(photos), used)
  ELSE IF ~Includes(used, Head(photos)) THEN Some(Head(photos))
  ELSE FirstFree(Tail(photos), used)

normalizeCategory(category) == KeepChars(toLowerCase(category), LowerLetters \cup { "-" })

TriedPhotos(category) ==
  COVER_PHOTO_LIBRARY(normalizeCategory(category))
    \o COVER_PHOTO_LIBRARY(K_nyc) \o COVER_PHOTO_LIBRARY(K_realestate)

\* allPhotos of the fallback branch.
NonBlockedLibraryPhotos == FilterOut(AllLibraryPhotos, Range(BLOCKED_PHOTO_IDS))

\* getUniqueCoverPhoto as it was before the block-list: the retired photo still
\* heads the real-estate bucket and nothing filters it.
getUniqueCoverPhoto_BeforeBlockList(d, category) ==
  LET legacy == COVER_PHOTO_LIBRARY(normalizeCategory(category))
                  \o COVER_PHOTO_LIBRARY(K_nyc) \o BLOCKED_PHOTO_IDS \o COVER_PHOTO_LIBRARY(K_realestate)
      free == SelectSeq(legacy, LAMBDA p : ~Includes(d.usedCoverPhotos, p))
      all == BLOCKED_PHOTO_IDS \o AllLibraryPhotos
  IN IF free # <<>> THEN { PhotoUrl(free[1]) }
     ELSE { PhotoUrl(all[i]) : i \in 1..Len(all) }

\* getUniqueCoverPhoto: the URLs the call can return.  One URL when a tried
\* bucket has a free photo; otherwise allPhotos[floor(random * length)], any
\* index of allPhotos ('undefined' when allPhotos is empty).
getUniqueCoverPhoto(d, category) ==
  LET free == FirstFree(TriedPhotos(category), d.usedCoverPhotos)
  IN IF free # None THEN { PhotoUrl(free[1]) }
     ELSE IF NonBlockedLibraryPhotos = <<>> THEN { PhotoUrl("undefined") }
     ELSE { PhotoUrl(NonBlockedLibraryPhotos[i]) : i \in 1..Len(NonBlockedLibraryPhotos) }

\* getUniqueCoverPhoto marking the photo it returns as used.
getUniqueCoverPhotoData_Reserves(d, photoUrl) == reserveCoverPhotoData(d, photoUrl)

\* The record after getUniqueCoverPhoto returned photoUrl: the method has no
\* assignment to this.data.
getUniqueCoverPhotoData(d, photoUrl) == d

TakesFallback(d, category) == FirstFree(TriedPhotos(category), d.usedCoverPhotos) = None

\* Every photo of every bucket of the library is used (or blocked).
AllBucketsExhausted(d) ==
  \A p \in Range(AllLibraryPhotos) : isPhotoUsed(d, p)

\* ---------------------------------------------------------------------------
\* Registry actions
\* ---------------------------------------------------------------------------

MaxAlloc == 6

UrlInputs == { PhotoUrl(P_FOREIGN), PhotoUrl(P_SKYLINE), << "/images/cover.jpg" >> }

RegistryInit ==
  /\ ustaFiles = <<>>
  /\ seoFiles = <<>>
  /\ data = syncData(<<>>, <<>>)
  /\ snapshot = syncData(<<>>, <<>>)
  /\ lastUrl = None
  /\ allocated = <<>>
  /\ exhaustedAtCall = FALSE
  /\ tookFallback = FALSE
  /\ registeredSlugs = {}
  /\ droppedBySync = NothingDropped

\* The environment adds a markdown file to the usta-react tree.
WriteUstaFile(f) ==
  /\ \E t \in TreeInputs : IsPrefix(Append(ustaFiles, f), t.usta) /\ IsPrefix(seoFiles, t.seo)
  /\ ustaFiles' = Append(ustaFiles, f)
  /\ UNCHANGED << seoFiles, data, snapshot, lastUrl, allocated,
                  exhaustedAtCall, tookFallback, registeredSlugs >>
  /\ droppedBySync' = NothingDropped

\* A markdown file is added to the seo tree.
WriteSeoFile(f) ==
  /\ \E t \in TreeInputs : IsPrefix(ustaFiles, t.usta) /\ IsPrefix(Append(seoFiles, f), t.seo)
  /\ seoFiles' = Append(seoFiles, f)
  /\ UNCHANGED << ustaFiles, data, snapshot, lastUrl, allocated,
                  exhaustedAtCall, tookFallback, registeredSlugs >>
  /\ droppedBySync' = NothingDropped

\* syncWithFilesystem(): rebuild the record from the trees, then save().
syncWithFilesystem ==
  /\ data' = syncDataFrom(syncStart(data), ustaFiles, seoFiles)
  /\ snapshot' = data'
  /\ registeredSlugs' = {}
  /\ droppedBySync' = Dropped(data, data')
  /\ UNCHANGED << ustaFiles, seoFiles, lastUrl, allocated, exhaustedAtCall, tookFallback >>

\* new BlogRegistry() in a new process: loadRegistry() reads the snapshot,
\* then the constructor calls syncWithFilesystem().
NewBlogRegistry ==
  /\ data' = syncDataFrom(syncStart(snapshot), ustaFiles, seoFiles)
  /\ snapshot' = data'
  /\ registeredSlugs' = {}
  /\ droppedBySync' = Dropped(snapshot, data')
  /\ UNCHANGED << ustaFiles, seoFiles, lastUrl, allocated, exhaustedAtCall, tookFallback >>

\* save(): whole-file overwrite of the snapshot.
save ==
  /\ snapshot' = data
  /\ UNCHANGED << ustaFiles, seoFiles, data, lastUrl, allocated, exhaustedAtCall,
                  tookFallback, registeredSlugs >>
  /\ droppedBySync' = NothingDropped

registerBlog(blog) ==
  /\ Len(data.publishedBlogs) < MaxBlogs
  /\ data' = registerBlogData(data, blog)
  /\ registeredSlugs' = registeredSlugs \cup { blog.slug }
  /\ UNCHANGED << ustaFiles, seoFiles, snapshot, lastUrl, allocated, exhaustedAtCall,
                  tookFallback >>
  /\ droppedBySync' = NothingDropped

\* reserveCoverPhoto(photoUrl) with a URL of the caller's.
reserveCoverPhoto(photoUrl) ==
  /\ data' = reserveCoverPhotoData(data, photoUrl)
  /\ UNCHANGED << ustaFiles, seoFiles, snapshot, lastUrl, allocated, exhaustedAtCall,
                  tookFallback, registeredSlugs >>
  /\ droppedBySync' = NothingDropped

\* getUniqueCoverPhoto(category): reads the registry, returns a URL.
GetUniqueCoverPhoto(category) ==
  /\ lastUrl = None
  /\ Len(allocated) < MaxAlloc
  /\ \E url \in getUniqueCoverPhoto(data, category) :
       /\ lastUrl' = Some(url)
       /\ data' = getUniqueCoverPhotoData(data, url)
  /\ tookFallback' = TakesFallback(data, category)
  /\ exhaustedAtCall' = (exhaustedAtCall \/ AllBucketsExhausted(data))
  /\ UNCHANGED << ustaFiles, seoFiles, snapshot, allocated, registeredSlugs,
                  droppedBySync >>

\* reserveCoverPhoto(url) of the URL getUniqueCoverPhoto just returned.
ReserveReturned ==
  /\ lastUrl # None
  /\ data' = reserveCoverPhotoData(data, lastUrl[1])
  /\ allocated' = Append(allocated, lastUrl[1][2])
  /\ lastUrl' = None
  /\ UNCHANGED << ustaFiles, seoFiles, snapshot, exhaustedAtCall, tookFallback,
                  registeredSlugs,
                  droppedBySync >>

\* ---------------------------------------------------------------------------
\* content-generator.ts / content-generator-ollama.ts: configuration
\* ---------------------------------------------------------------------------

Intents == { "informational", "transactional", "navigational", "commercial" }

\* Each angle list is modelled by its first AngleCap entries.
AngleCap == 2

Take(s, n) == SubSeq(s, 1, IF Len(s) < n THEN Len(s) ELSE n)

ANGLES_informational ==
  << "beginner-guide", "expert-deep-dive", "case-study", "comparison", "step-by-step",
     "common-mistakes", "future-trends", "data-analysis", "interview-synthesis",
     "contrarian-view" >>

ANGLES_transactional ==
  << "roi-focused", "implementation-guide", "feature-breakdown", "pricing-analysis",
     "use-case-specific" >>

ANGLES_commercial ==
  << "buyer-guide", "alternatives-analysis", "pros-cons", "industry-specific" >>

ANGLES_navigational == << "getting-started", "quick-reference", "troubleshooting" >>

\* CONTENT_ANGLES[intent] || CONTENT_ANGLES.informational.  The table of
\* content-generator.ts has no 'navigational' key; the Ollama one has.
CONTENT_ANGLES(kind, intent) ==
  CASE intent = "informational" -> Take(ANGLES_informational, AngleCap)
    [] intent = "transactional" -> Take(ANGLES_transactional, AngleCap)
    [] intent = "commercial"    -> Take(ANGLES_commercial, AngleCap)
    [] intent = "navigational" /\ kind = "ollama" -> Take(ANGLES_navigational, AngleCap)
    [] OTHER -> Take(ANGLES_informational, AngleCap)

Angles ==
  Range(ANGLES_informational) \cup Range(ANGLES_transactional)
    \cup Range(ANGLES_commercial) \cup Range(ANGLES_navigational)

Topics == { "X", "Y" }

\* generateBrief(topic, keyword, intent, audience) calls of the runs modelled.
BriefInputs == ({ "X" } \X Intents) \cup { << "Y", "informational" >> }

\* maxAttempts defaults of the two regenerateIfNeeded.
MaxAttemptsAnthropic == 3
MaxAttemptsOllama == 2

\* maxAttempts arguments a caller passes: 0..MaxAttemptsArg.
MaxAttemptsArg == 3

\* generatedData.content of a candidate: absent (or empty), a string under 500
\* characters, a string of 500 characters or more.
ContentInputs == { "missing", "short", "long" }

\* What an LLM request ends with: text that parses as the JSON asked for, any
\* other text, or an error (connection failure, HTTP error, timeout).
LlmResponses == { "json", "text", "error" }

\* Whether the client of the generator arms a timer around its request:
\* OllamaClient.generate / chat abort the fetch after config.timeout;
\* ContentGenerator passes no timeout to client.messages.create.
TimeoutConfigured(kind) == kind = "ollama"

\* How a request of the generator can end; "timeout": the timer fired and the
\* client threw '... timed out after ${timeout}ms'.
LlmOutcomes(kind) ==
  LlmResponses \cup (IF TimeoutConfigured(kind) THEN { "timeout" } ELSE {})

\* The request threw.
LlmThrows(resp) == resp \in { "error", "timeout" }

LlmFailure(resp) == IF resp = "timeout" THEN "timeout" ELSE "llm-error"

\* ---------------------------------------------------------------------------
\* State of one generator and of the pipeline that drives it
\* ---------------------------------------------------------------------------

VARIABLES
  genKind,         \* "anthropic": ContentGenerator, "ollama": OllamaContentGenerator
  usedAngles,      \* UniquenessEngine.usedAngles: topic -> set of angles
  pc,              \* where the pipeline is (which await is pending)
  cur,             \* the call in progress: brief, candidate, loop counters
  briefLlmCalls,   \* LLM requests issued by the current / last generateBrief
  lastOutcome,     \* how the last operation ended
  returnedCount    \* history: topic -> angle -> briefs returned with that angle

genVars == << genKind, usedAngles, pc, cur, briefLlmCalls, lastOutcome, returnedCount >>

NoCall ==
  [ topic |-> "X", intent |-> "informational", angle |-> "", usedAtStart |-> {},
    inRegen |-> FALSE, passes |-> FALSE, initialPasses |-> FALSE,
    attempts |-> 0, maxAttempts |-> 0, genCalls |-> 0, failure |-> "",
    resp |-> "none", content |-> "none", degraded |-> FALSE, scored |-> FALSE,
    briefAngle |-> << "" >>, modifiedAngle |-> << >>, genAngles |-> << >>,
    dataPoints |-> 0, genDataPoints |-> 0, hasIssues |-> FALSE ]

GenInit ==
  /\ genKind \in { "anthropic", "ollama" }
  /\ usedAngles = [ t \in Topics |-> {} ]
  /\ pc = "idle"
  /\ cur = NoCall
  /\ briefLlmCalls = 0
  /\ lastOutcome = "none"
  /\ returnedCount = [ t \in Topics |-> [ a \in Angles |-> 0 ] ]

\* ---------------------------------------------------------------------------
\* UniquenessEngine
\* ---------------------------------------------------------------------------

\* registerAngle without the effect (the angle is not recorded).
registerAngle_Forgets(used, topic, angle) == used

registerAngle(used, topic, angle) ==
  [ used EXCEPT ![topic] = @ \cup { angle } ]

\* getAvailableAngles whose filter never drops the last angle of the list.
getAvailableAngles_KeepsLast(kind, used, topic, intent) ==
  LET angles == CONTENT_ANGLES(kind, intent)
  IN SelectSeq(angles, LAMBDA angle : angle \notin used[topic] \/ angle = angles[Len(angles)])

getAvailableAngles(kind, used, topic, intent) ==
  SelectSeq(CONTENT_ANGLES(kind, intent), LAMBDA angle : angle \notin used[topic])

\* ---------------------------------------------------------------------------
\* generateBrief
\* ---------------------------------------------------------------------------

\* The operation in progress throws: the pipeline run is over.
FailsWith(c, reason) ==
  /\ pc' = "idle"
  /\ lastOutcome' = "failed"
  /\ cur' = [ c EXCEPT !.failure = reason ]

Fails(reason) == FailsWith(cur, reason)

\* generateBrief(topic, keyword, intent, audience) up to its first await:
\* throw 'All content angles exhausted' or request the differentiators.
generateBrief(topic, intent) ==
  /\ pc = "idle"
  /\ LET availableAngles == getAvailableAngles(genKind, usedAngles, topic, intent)
     IN IF Len(availableAngles) = 0
          THEN /\ pc' = "idle"
               /\ lastOutcome' = "angles-exhausted"
               /\ cur' = [ NoCall EXCEPT !.topic = topic, !.intent = intent,
                                         !.usedAtStart = usedAngles[topic],
                                         !.failure = "angles-exhausted" ]
               /\ briefLlmCalls' = 0
          ELSE /\ pc' = "brief_differentiators"
               /\ lastOutcome' = "none"
               /\ cur' = [ NoCall EXCEPT !.topic = topic, !.intent = intent,
                                         !.angle = availableAngles[1],
                                         !.briefAngle = << availableAngles[1] >>,
                                         !.usedAtStart = usedAngles[topic] ]
               /\ briefLlmCalls' = 1
  /\ UNCHANGED << genKind, usedAngles, returnedCount >>

\* The differentiators request ends.  JSON.parse of other text throws in
\* ContentGenerator; OllamaContentGenerator catches and uses fixed defaults.
BriefDifferentiatorsResponds(resp) ==
  /\ pc = "brief_differentiators"
  /\ IF LlmThrows(resp) THEN Fails(LlmFailure(resp)) /\ UNCHANGED briefLlmCalls
     ELSE IF resp = "text" /\ genKind = "anthropic"
       THEN Fails("unparsable") /\ UNCHANGED briefLlmCalls
     ELSE /\ pc' = "brief_dataPoints"
          /\ briefLlmCalls' = briefLlmCalls + 1
          /\ UNCHANGED << cur, lastOutcome >>
  /\ UNCHANGED << genKind, usedAngles, returnedCount >>

\* Number of data points OllamaContentGenerator uses when the response does
\* not parse.
FallbackDataPoints == 3

\* The data-points request ends (same parsing as the differentiators);
\* `dataPoints`: the number of entries of the array a JSON response holds.
BriefDataPointsResponds(resp, dataPoints) ==
  /\ pc = "brief_dataPoints"
  /\ IF LlmThrows(resp) THEN Fails(LlmFailure(resp)) /\ UNCHANGED briefLlmCalls
     ELSE IF resp = "text" /\ genKind = "anthropic"
       THEN Fails("unparsable") /\ UNCHANGED briefLlmCalls
     ELSE /\ pc' = "brief_insight"
          /\ briefLlmCalls' = briefLlmCalls + 1
          /\ cur' = [ cur EXCEPT !.dataPoints = IF resp = "text" THEN FallbackDataPoints
                                               ELSE dataPoints ]
          /\ UNCHANGED lastOutcome
  /\ UNCHANGED << genKind, usedAngles, returnedCount >>

\* The insight request ends; on success the angle is registered and the brief
\* returned.
BriefInsightResponds(resp) ==
  /\ pc = "brief_insight"
  /\ IF LlmThrows(resp)
       THEN Fails(LlmFailure(resp)) /\ UNCHANGED << usedAngles, returnedCount >>
       ELSE /\ usedAngles' = registerAngle(usedAngles, cur.topic, cur.angle)
            /\ returnedCount' =
                 [ returnedCount EXCEPT ![cur.topic][cur.angle] = IF @ < 2 THEN @ + 1 ELSE @ ]
            /\ pc' = "have_brief"
            /\ lastOutcome' = "brief-returned"
            /\ UNCHANGED cur
  /\ UNCHANGED << genKind, briefLlmCalls >>


\* ---------------------------------------------------------------------------
\* generateContent
\* ---------------------------------------------------------------------------

\* A generateContent call starts: nothing of the candidate exists yet.
NewCandidate(c) ==
  [ c EXCEPT !.resp = "none", !.content = "none", !.degraded = FALSE, !.scored = FALSE ]

\* generateContent(brief) up to its await: the content request is issued.
\* Called by the pipeline with the brief generateBrief returned.
generateContent ==
  /\ pc = "have_brief"
  /\ pc' = "content_request"
  /\ lastOutcome' = "none"
  /\ cur' = [ NewCandidate(cur) EXCEPT !.genDataPoints = cur.dataPoints ]
  /\ UNCHANGED << genKind, usedAngles, briefLlmCalls, returnedCount >>

\* generateContent returns its candidate to the pipeline or to the loop of
\* regenerateIfNeeded that called it.
ContentReturns(c, verdict) ==
  /\ pc' = IF c.inRegen THEN "regen_loop" ELSE "have_content"
  /\ cur' = [ c EXCEPT !.passes = verdict.passesThreshold, !.hasIssues = verdict.hasIssues ]
  /\ UNCHANGED lastOutcome

\* OllamaContentGenerator: generatedData from the response.  extractJSON, and
\* when it throws, the fallback artifact: title, metaDescription and slug made
\* from the brief, content = the raw response.
ParseContent_Ollama(c, resp, content) ==
  [ c EXCEPT !.resp = resp, !.content = content, !.degraded = (resp = "text") ]

\* ContentGenerator: generatedData = JSON.parse(text), which throws on other
\* text.
ParseContent_Anthropic(c, resp, content) ==
  [ c EXCEPT !.resp = resp, !.content = IF resp = "json" THEN content ELSE "none" ]

\* !generatedData.content || generatedData.content.length < 500
TooShort(content) == content \in { "missing", "short" }

\* The content request ends.  `content`: the content of the response (of the
\* JSON's content field, or of the raw text); `verdict`: passesThreshold and
\* issues of evaluateDifferentiation on it and the brief.
\* ContentGenerator: JSON.parse, no length guard, evaluateDifferentiation
\* (a TypeError when content is not a string), then evaluateQuality issues its
\* own request.
\* OllamaContentGenerator: extractJSON or the fallback artifact, the length
\* guard, then evaluateDifferentiation and evaluateQuality, both local.
ContentResponds(resp, content, verdict) ==
  /\ pc = "content_request"
  /\ IF LlmThrows(resp) THEN FailsWith([ cur EXCEPT !.resp = resp ], LlmFailure(resp))
     ELSE IF genKind = "anthropic"
       THEN LET c == ParseContent_Anthropic(cur, resp, content)
            IN IF c.content = "none" THEN FailsWith(c, "unparsable-content")
               ELSE IF c.content = "missing" THEN FailsWith(c, "type-error")
               ELSE /\ pc' = "quality_request"
                    /\ cur' = [ c EXCEPT !.scored = TRUE,
                                          !.passes = verdict.passesThreshold,
                                          !.hasIssues = verdict.hasIssues ]
                    /\ UNCHANGED lastOutcome
       ELSE LET c == ParseContent_Ollama(cur, resp, content)
            IN IF TooShort(c.content) THEN FailsWith(c, "too-short")
               ELSE ContentReturns([ c EXCEPT !.scored = TRUE ], verdict)
  /\ UNCHANGED << genKind, usedAngles, briefLlmCalls, returnedCount >>

\* ContentGenerator.evaluateQuality: its request ends; the scores are parsed
\* with JSON.parse.
QualityResponds(resp) ==
  /\ pc = "quality_request"
  /\ IF LlmThrows(resp) THEN Fails(LlmFailure(resp))
     ELSE IF resp = "text" THEN Fails("unparsable")
     ELSE ContentReturns(cur, [ passesThreshold |-> cur.passes, hasIssues |-> cur.hasIssues ])
  /\ UNCHANGED << genKind, usedAngles, briefLlmCalls, returnedCount >>

\* ---------------------------------------------------------------------------
\* regenerateIfNeeded
\* ---------------------------------------------------------------------------

DefaultMaxAttempts(kind) ==
  IF kind = "anthropic" THEN MaxAttemptsAnthropic ELSE MaxAttemptsOllama

\* The loop condition with <= for <.
RegenContinues_OffByOne(c) == ~c.passes /\ c.attempts <= c.maxAttempts

\* while (!current.differentiationReport.passesThreshold && attempts < maxAttempts)
RegenContinues(c) == ~c.passes /\ c.attempts < c.maxAttempts

\* Neither regenerateIfNeeded throws after the loop.
ThrowsBelowThreshold_Never(kind, c) == FALSE

\* Both regenerateIfNeeded throw after the loop when the candidate fails.
ThrowsBelowThreshold_Always(kind, c) == ~c.passes

\* After the loop: ContentGenerator throws 'Failed to generate sufficiently
\* unique content after ${maxAttempts} attempts. Issues: ...' when the current
\* candidate fails; OllamaContentGenerator has no such statement.
ThrowsBelowThreshold(kind, c) == kind = "anthropic" /\ ~c.passes

\* contentAngle of the brief a caller of regenerateIfNeeded holds.
CallerAngle == "case-study"

\* A contentAngle is the sequence of the pieces its template string joins.
\* modifiedBrief.contentAngle, `attempts` already incremented:
\* `${brief.contentAngle}-v${attempts + 1}` in ContentGenerator,
\* `${brief.contentAngle}-variant-${attempts}` in OllamaContentGenerator.
ModifiedContentAngle(kind, contentAngle, attempts) ==
  contentAngle \o (IF kind = "anthropic" THEN << "-v", ToString(attempts + 1) >>
                   ELSE << "-variant-", ToString(attempts) >>)

\* The caller's brief if modifiedBrief were the brief itself and not a copy.
\* modifiedBrief.dataPoints replaced by a fresh list that satisfies the
\* requirement.
ModifiedBriefDataPoints_Refreshed(dataPoints, previous) == FallbackDataPoints

\* modifiedBrief = { ...brief }: the data points of the caller's brief.
ModifiedBriefDataPoints(dataPoints, previous) == dataPoints

CallerBriefAngle_Aliased(contentAngle, modifiedAngle) == modifiedAngle

\* brief.contentAngle after `modifiedBrief = { ...brief }` and the assignment
\* to modifiedBrief.contentAngle: the copy is changed, the brief is not.
CallerBriefAngle(contentAngle, modifiedAngle) == contentAngle

\* The pipeline, holding a candidate: it is published as it is when it passes.
PipelineAccepts ==
  /\ pc = "have_content"
  /\ cur.passes
  /\ pc' = "idle"
  /\ lastOutcome' = "finalized"
  /\ UNCHANGED << genKind, usedAngles, cur, briefLlmCalls, returnedCount >>

\* The pipeline calls regenerateIfNeeded(content, brief) when the candidate is
\* below the threshold.
PipelineRegenerates ==
  /\ pc = "have_content"
  /\ ~cur.passes
  /\ pc' = "regen_loop"
  /\ cur' = [ cur EXCEPT !.inRegen = TRUE, !.initialPasses = FALSE, !.attempts = 0,
                         !.maxAttempts = DefaultMaxAttempts(genKind), !.genCalls = 0,
                         !.modifiedAngle = << >>, !.genAngles = << >> ]
  /\ UNCHANGED << genKind, usedAngles, briefLlmCalls, lastOutcome, returnedCount >>

\* regenerateIfNeeded(content, brief, maxAttempts) called with a candidate and
\* a brief of the caller's.
regenerateIfNeeded(initialPasses, maxAttempts, dataPoints) ==
  /\ pc = "idle"
  /\ pc' = "regen_loop"
  /\ cur' = [ NoCall EXCEPT !.inRegen = TRUE, !.passes = initialPasses,
                            !.hasIssues = ~initialPasses,
                            !.initialPasses = initialPasses, !.maxAttempts = maxAttempts,
                            !.dataPoints = dataPoints,
                            !.angle = CallerAngle, !.briefAngle = << CallerAngle >>,
                            !.usedAtStart = usedAngles["X"] ]
  /\ lastOutcome' = "none"
  /\ UNCHANGED << genKind, usedAngles, briefLlmCalls, returnedCount >>

\* One evaluation of the loop condition.  True: attempts++, then
\* ContentGenerator awaits getAlternativeDataPoints, OllamaContentGenerator
\* calls generateContent(modifiedBrief) at once.  False: the loop is left.
RegenLoop ==
  /\ pc = "regen_loop"
  /\ IF RegenContinues(cur)
       THEN /\ LET modified == ModifiedContentAngle(genKind, cur.briefAngle, cur.attempts + 1)
               IN cur' = [ NewCandidate(cur) EXCEPT
                             !.attempts = @ + 1,
                             !.modifiedAngle = modified,
                             !.briefAngle = CallerBriefAngle(@, modified),
                             !.genCalls = IF genKind = "ollama" THEN @ + 1 ELSE @,
                             !.genDataPoints = ModifiedBriefDataPoints(cur.dataPoints, @),
                             !.genAngles =
                               IF genKind = "ollama" THEN Append(@, modified) ELSE @ ]
            /\ pc' = IF genKind = "ollama" THEN "content_request" ELSE "altdata_request"
            /\ UNCHANGED lastOutcome
       ELSE IF ThrowsBelowThreshold(genKind, cur)
         THEN Fails("below-threshold")
         ELSE /\ pc' = "idle"
              /\ lastOutcome' = "finalized"
              /\ UNCHANGED cur
  /\ UNCHANGED << genKind, usedAngles, briefLlmCalls, returnedCount >>

\* ContentGenerator.getAlternativeDataPoints: its request ends; parsed with
\* JSON.parse into modifiedBrief.dataPoints (`dataPoints` entries); then
\* generateContent(modifiedBrief) is called.
AlternativeDataPointsResponds(resp, dataPoints) ==
  /\ pc = "altdata_request"
  /\ IF LlmThrows(resp) THEN Fails(LlmFailure(resp))
     ELSE IF resp = "text" THEN Fails("unparsable")
     ELSE /\ pc' = "content_request"
          /\ cur' = [ cur EXCEPT !.genCalls = @ + 1,
                                  !.genDataPoints = dataPoints,
                                  !.genAngles = Append(@, cur.modifiedAngle) ]
          /\ UNCHANGED lastOutcome
  /\ UNCHANGED << genKind, usedAngles, briefLlmCalls, returnedCount >>

\* ---------------------------------------------------------------------------
\* content-validation: template rotation
\* ---------------------------------------------------------------------------

TEMPLATE_IDS == << "ATLAS", "PERSONA", "CATALYST", "PLAYBOOK", "COMPASS", "BLUEPRINT" >>

\* selectedTemplate and history entries are any strings: the six ids and one
\* string that is none of them.
TemplateInputs == Range(TEMPLATE_IDS) \cup { "UNKNOWN" }

\* Histories of up to MaxHistory entries.
MaxHistory == 3

Histories == UNION { [ 1..n -> TemplateInputs ] : n \in 0..MaxHistory }

VARIABLES
  templateHistory,     \* the templates of the blogs published so far, oldest first
  templateValidation   \* result of the last validateTemplateSelection, or None

templateVars == << templateHistory, templateValidation >>

TemplateInit ==
  /\ templateHistory = << >>
  /\ templateValidation = None

\* recentHistory.slice(-1)
LastTwo_OnlyLast(recentHistory) ==
  SubSeq(recentHistory, IF Len(recentHistory) > 1 THEN Len(recentHistory) ELSE 1,
         Len(recentHistory))

\* recentHistory.slice(-2)
LastTwo(recentHistory) ==
  SubSeq(recentHistory, IF Len(recentHistory) > 2 THEN Len(recentHistory) - 1 ELSE 1,
         Len(recentHistory))

\* validateTemplateSelection accepting every known template id.
validateTemplateSelection_AnyKnown(selectedTemplate, recentHistory) ==
  [ valid |-> Includes(TEMPLATE_IDS, selectedTemplate),
    selectedTemplate |-> selectedTemplate,
    recentHistory |-> recentHistory,
    excluded |-> LastTwo(recentHistory),
    available |-> TEMPLATE_IDS ]

validateTemplateSelection(selectedTemplate, recentHistory) ==
  LET lastTwo == LastTwo(recentHistory)
      excluded == lastTwo
      available == SelectSeq(TEMPLATE_IDS, LAMBDA t : ~Includes(excluded, t))
      valid == Includes(available, selectedTemplate)
  IN [ valid |-> valid,
       selectedTemplate |-> selectedTemplate,
       recentHistory |-> recentHistory,
       excluded |-> excluded,
       available |-> available ]

\* A call validateTemplateSelection(selectedTemplate, recentHistory) with the
\* history so far.
ValidateTemplate(selectedTemplate) ==
  /\ templateValidation' = Some(validateTemplateSelection(selectedTemplate, templateHistory))
  /\ UNCHANGED templateHistory

\* The publisher appends the template just validated, if it was accepted.
PublishTemplate ==
  /\ templateValidation # None
  /\ templateValidation[1].valid
  /\ Len(templateHistory) < MaxHistory
  /\ templateHistory' = Append(templateHistory, templateValidation[1].selectedTemplate)
  /\ templateValidation' = None

\* ---------------------------------------------------------------------------
\* Scores: exact fractions << numerator, denominator >>, denominator > 0
\* (the code computes them in floating point)
\* ---------------------------------------------------------------------------

RECURSIVE Gcd(_, _)
Gcd(m, n) == IF n = 0 THEN m ELSE Gcd(n, m % n)

Abs(n) == IF n < 0 THEN -n ELSE n

\* The fraction n/d in lowest terms.
Frac(n, d) ==
  LET g == Gcd(Abs(n), d)
  IN << n \div g, d \div g >>

FracZero == Frac(0, 1)
FracOne == Frac(1, 1)
FracAdd(a, b) == Frac(a[1] * b[2] + b[1] * a[2], a[2] * b[2])
FracSub(a, b) == Frac(a[1] * b[2] - b[1] * a[2], a[2] * b[2])
FracMul(a, b) == Frac(a[1] * b[1], a[2] * b[2])
FracLeq(a, b) == a[1] * b[2] <= b[1] * a[2]
FracLess(a, b) == a[1] * b[2] < b[1] * a[2]
FracMin(a, b) == IF FracLeq(a, b) THEN a ELSE b

RECURSIVE FracSum(_)
FracSum(fs) == IF fs = << >> THEN FracZero ELSE FracAdd(Head(fs), FracSum(Tail(fs)))

\* CONFIG
CONFIG_minUniquenessScore == Frac(75, 100)
CONFIG_maxSimilarity == Frac(3, 10)
CONFIG_requiredUniqueDataPoints == 3
CONFIG_requiredUniquePhrases == 5

\* ---------------------------------------------------------------------------
\* evaluateDifferentiation
\* ---------------------------------------------------------------------------

\* Number of data points of the brief: 0..MaxDataPoints.
MaxDataPoints == 3

\* What evaluateDifferentiation reads of the content and the brief:
\*   maxSimilarity    of calculateOverallSimilarity(content),
\*   included[i]      content includes the leading characters of dataPoints[i].fact,
\*   insightIncluded  content includes the leading characters of uniqueInsight,
\*   uniquePhrases    number of long sentences of the content (of the first ten)
\*                    that include no phrase of the corpus (ContentGenerator).
DifferentiationInputs ==
  [ fn : { "evaluateDifferentiation" },
    maxSimilarity : { Frac(0, 1), Frac(3, 10), Frac(1, 3), Frac(1, 1) },
    included : UNION { [ 1..n -> BOOLEAN ] : n \in 0..MaxDataPoints },
    insightIncluded : BOOLEAN,
    uniquePhrases : { 0, 4, 5 } ]

\* overallScore as the plain sum of the three scores.
OverallScore_Unweighted(angleScore, dataScore, insightScore) ==
  FracSum(<< angleScore, dataScore, insightScore >>)

\* (angleScore * 0.4) + (dataScore * 0.35) + (insightScore * 0.25)
OverallScore(angleScore, dataScore, insightScore) ==
  FracSum(<< FracMul(angleScore, Frac(40, 100)),
             FracMul(dataScore, Frac(35, 100)),
             FracMul(insightScore, Frac(25, 100)) >>)

\* passesThreshold from the score alone.
PassesThreshold_ScoreOnly(overallScore, issues) ==
  FracLeq(CONFIG_minUniquenessScore, overallScore)

\* overallScore >= CONFIG.minUniquenessScore && issues.length === 0
PassesThreshold(overallScore, issues) ==
  FracLeq(CONFIG_minUniquenessScore, overallScore) /\ issues = << >>

\* evaluateDifferentiation with dataScore = uniqueFactCount (no division).
evaluateDifferentiation_RawFactCount(kind, in) ==
  LET uniqueFactCount == Cardinality({ i \in 1..Len(in.included) : in.included[i] })
      overallScore == FracSum(<< FracMul(FracSub(FracOne, in.maxSimilarity), Frac(40, 100)),
                                 FracMul(Frac(uniqueFactCount, 1), Frac(35, 100)),
                                 FracMul(FracOne, Frac(25, 100)) >>)
  IN [ uniqueFactCount |-> uniqueFactCount,
       angleScore |-> FracSub(FracOne, in.maxSimilarity),
       dataScore |-> Frac(uniqueFactCount, 1),
       insightScore |-> FracOne,
       overallScore |-> overallScore,
       passesThreshold |-> FracLeq(CONFIG_minUniquenessScore, overallScore),
       issues |-> << >> ]

\* evaluateDifferentiation of the two generators.  They differ in the
\* insightScore of a missing insight (0 / 0.5) and in the unique-phrases issue
\* (ContentGenerator only).
evaluateDifferentiation(kind, in) ==
  LET uniqueFactCount == Cardinality({ i \in 1..Len(in.included) : in.included[i] })
      nDataPoints == Len(in.included)
      angleScore == FracSub(FracOne, in.maxSimilarity)
      dataScore == Frac(uniqueFactCount, IF nDataPoints > 1 THEN nDataPoints ELSE 1)
      insightScore == IF in.insightIncluded THEN FracOne
                      ELSE IF kind = "ollama" THEN Frac(1, 2) ELSE FracZero
      overallScore == OverallScore(angleScore, dataScore, insightScore)
      issues ==
        (IF FracLess(CONFIG_maxSimilarity, in.maxSimilarity) THEN << "too-similar" >> ELSE << >>)
        \o (IF uniqueFactCount < CONFIG_requiredUniqueDataPoints
              THEN << "data-points" >> ELSE << >>)
        \o (IF kind = "anthropic" /\ in.uniquePhrases < CONFIG_requiredUniquePhrases
              THEN << "unique-phrases" >> ELSE << >>)
  IN [ uniqueFactCount |-> uniqueFactCount,
       angleScore |-> angleScore,
       dataScore |-> dataScore,
       insightScore |-> insightScore,
       overallScore |-> overallScore,
       passesThreshold |-> PassesThreshold(overallScore, issues),
       issues |-> issues ]

\* What generateContent's callers read of a differentiationReport.
Verdict(report) ==
  [ passesThreshold |-> report.passesThreshold, hasIssues |-> report.issues # << >> ]

\* evaluateDifferentiation of both generators on every input: the generator,
\* the number of data points of the brief, the verdict.
VerdictTable ==
  { [ kind |-> kind, dataPoints |-> Len(in.included),
      verdict |-> Verdict(evaluateDifferentiation(kind, in)) ] :
      kind \in { "anthropic", "ollama" }, in \in DifferentiationInputs }

\* The verdicts evaluateDifferentiation returns on a brief of n data points.
Verdicts(kind, n) ==
  { t.verdict : t \in { x \in VerdictTable : x.kind = kind /\ x.dataPoints = n } }

\* ---------------------------------------------------------------------------
\* evaluateQuality
\* ---------------------------------------------------------------------------

\* What OllamaContentGenerator.evaluateQuality reads of the content.
OllamaQualityInputs ==
  [ fn : { "evaluateQuality" },
    wordCount : { 999, 1000, 1500, 2000 },
    h2Count : { 2, 3 },
    h3Count : { 1, 2 },
    listCount : { 2, 3 },
    hasKeyword : BOOLEAN,
    hasExample : BOOLEAN,
    hasStep : BOOLEAN ]

OllamaQualityPoints(in) ==
  << IF in.wordCount >= 2000 THEN Frac(3, 10)
       ELSE IF in.wordCount >= 1500 THEN Frac(2, 10)
       ELSE IF in.wordCount >= 1000 THEN Frac(1, 10) ELSE FracZero,
     IF in.h2Count >= 3 THEN Frac(2, 10) ELSE FracZero,
     IF in.h3Count >= 2 THEN Frac(1, 10) ELSE FracZero,
     IF in.listCount >= 3 THEN Frac(1, 10) ELSE FracZero,
     IF in.hasKeyword THEN Frac(1, 10) ELSE FracZero,
     IF in.hasExample THEN Frac(1, 10) ELSE FracZero,
     IF in.hasStep THEN Frac(1, 10) ELSE FracZero >>

\* OllamaContentGenerator.evaluateQuality: Math.min(score, 1)
evaluateQuality_Ollama(in) == FracMin(FracSum(OllamaQualityPoints(in)), FracOne)

\* The criteria of ContentGenerator.evaluateQuality, in the order of `weights`.
QualityCriteria ==
  << "answersIntent", "actionability", "depth", "accuracy", "readability", "uniqueness" >>

QualityWeights ==
  << Frac(25, 100), Frac(20, 100), Frac(20, 100), Frac(15, 100), Frac(10, 100), Frac(10, 100) >>

\* scores[key] of the parsed response: absent, or a number; the prompt asks
\* for 0.0-1.0, the code takes whatever number is there.
CriterionInputs == { None, Some(Frac(1, 2)), Some(Frac(1, 1)), Some(Frac(3, 2)) }

AnthropicQualityInputs ==
  [ fn : { "evaluateQuality" },
    scores : [ 1..Len(QualityCriteria) -> CriterionInputs ] ]

\* ContentGenerator.evaluateQuality: the sum of (scores[key] || 0) * weight
evaluateQuality_Anthropic(in) ==
  FracSum([ i \in 1..Len(QualityCriteria) |->
              FracMul(IF in.scores[i] = None THEN FracZero ELSE in.scores[i][1],
                      QualityWeights[i]) ])

evaluateQuality(kind, in) ==
  IF kind = "ollama" THEN evaluateQuality_Ollama(in) ELSE evaluateQuality_Anthropic(in)

\* ---------------------------------------------------------------------------
\* The scorers as operations
\* ---------------------------------------------------------------------------

ScoreInputs(kind) ==
  DifferentiationInputs
    \cup (IF kind = "ollama" THEN OllamaQualityInputs ELSE AnthropicQualityInputs)

VARIABLES
  scoreIn,    \* arguments of a scorer call, Some(...), or None
  scoreOut    \* what the call returned, Some(...), or None

scoreVars == << scoreIn, scoreOut >>

ScoreInit ==
  /\ scoreIn = None
  /\ scoreOut = None

\* The scorer named by the arguments runs and returns.
EvaluateScore ==
  /\ scoreIn # None
  /\ scoreOut = None
  /\ scoreOut' = IF scoreIn[1].fn = "evaluateDifferentiation"
                   THEN Some(evaluateDifferentiation(genKind, scoreIn[1]))
                   ELSE Some(evaluateQuality(genKind, scoreIn[1]))
  /\ UNCHANGED scoreIn

\* ---------------------------------------------------------------------------
\* UniquenessEngine: key phrases and similarity
\* ---------------------------------------------------------------------------

\* A content is modelled by plainText.split(/\s+/): its words, in order
\* (documents without frontmatter or markdown characters).
WordLength(w) == IF w = "the" THEN 3 ELSE IF w = "beta" THEN 4 ELSE 5

\* toLowerCase on the words the inputs use.
toLowerCaseWord(w) == IF w = "Alpha" THEN "alpha" ELSE w

D_empty == << >>
D_four == << "alpha", "beta", "gamma", "delta" >>
D_five == << "alpha", "beta", "gamma", "delta", "omega" >>
D_five_variant == << "Alpha", "the", "beta", "gamma", "delta", "the", "omega" >>
D_six == << "alpha", "beta", "gamma", "delta", "omega", "kappa" >>
D_other == << "kappa", "omega", "delta", "gamma", "beta", "alpha" >>

DocInputs == { D_empty, D_four, D_five, D_five_variant, D_six, D_other }

CorpusSlugs == { "post-a", "post-b", "post-c" }

\* Documents in the corpus: 0..MaxCorpus.
MaxCorpus == 2

\* extractKeyPhrases: the words longer than 3 characters, lower-cased; one
\* phrase of 4 consecutive words for every i < words.length - 4.
extractKeyPhrases(content) ==
  LET words == SelectSeq([ i \in 1..Len(content) |-> toLowerCaseWord(content[i]) ],
                         LAMBDA w : WordLength(w) > 3)
      n == IF Len(words) > 4 THEN Len(words) - 4 ELSE 0
  IN [ i \in 1..n |-> SubSeq(words, i, i + 3) ]

\* calculateSimilarity dividing by the size of the stored phrase set.
calculateSimilarity_OverExisting(newContent, existingPhrases) ==
  LET newPhrases == Range(extractKeyPhrases(newContent))
      existingSet == Range(existingPhrases)
      overlap == Cardinality(newPhrases \cap existingSet)
  IN Frac(overlap, IF Cardinality(existingSet) > 1 THEN Cardinality(existingSet) ELSE 1)

\* overlap / Math.max(newPhrases.size, 1) against one stored phrase list.
calculateSimilarity(newContent, existingPhrases) ==
  LET newPhrases == Range(extractKeyPhrases(newContent))
      overlap == Cardinality(newPhrases \cap Range(existingPhrases))
  IN Frac(overlap, IF Cardinality(newPhrases) > 1 THEN Cardinality(newPhrases) ELSE 1)

\* The loop of calculateOverallSimilarity over the corpus in Map order,
\* from the best so far.
RECURSIVE MostSimilar(_, _, _)
MostSimilar(newContent, corpus, best) ==
  IF corpus = << >> THEN best
  ELSE LET similarity == calculateSimilarity(newContent, Head(corpus).phrases)
       IN MostSimilar(newContent, Tail(corpus),
                      IF FracLess(best.maxSimilarity, similarity)
                        THEN [ maxSimilarity |-> similarity, mostSimilarTo |-> Head(corpus).slug ]
                        ELSE best)

\* calculateOverallSimilarity leaving its loop after the first document.
calculateOverallSimilarity_FirstOnly(newContent, corpus) ==
  MostSimilar(newContent, SubSeq(corpus, 1, IF Len(corpus) > 1 THEN 1 ELSE Len(corpus)),
              [ maxSimilarity |-> FracZero, mostSimilarTo |-> "" ])

calculateOverallSimilarity(newContent, corpus) ==
  MostSimilar(newContent, corpus, [ maxSimilarity |-> FracZero, mostSimilarTo |-> "" ])

\* Map.prototype.set: a new key goes last, an existing key keeps its place.
MapSet(corpus, slug, phrases) ==
  IF \E i \in 1..Len(corpus) : corpus[i].slug = slug
    THEN [ i \in 1..Len(corpus) |->
             IF corpus[i].slug = slug THEN [ slug |-> slug, phrases |-> phrases ]
             ELSE corpus[i] ]
    ELSE Append(corpus, [ slug |-> slug, phrases |-> phrases ])

VARIABLES
  existingContent,   \* UniquenessEngine.existingContent: slug -> phrases, in Map order
  similarity,        \* the last calculateOverallSimilarity call: content and result, or None
  keyPhrases         \* the last extractKeyPhrases call: content and phrases, or None

similarityVars == << existingContent, similarity, keyPhrases >>

SimilarityInit ==
  /\ existingContent = << >>
  /\ similarity = None
  /\ keyPhrases = None

\* A call extractKeyPhrases(content) and what it returned.
KeyPhrasesCall(content) == Some([ content |-> content, phrases |-> extractKeyPhrases(content) ])

\* loadExistingContent, one file: existingContent.set(slug, extractKeyPhrases(content))
LoadDocument(slug, content) ==
  /\ Len(MapSet(existingContent, slug, extractKeyPhrases(content))) <= MaxCorpus
  /\ existingContent' = MapSet(existingContent, slug, extractKeyPhrases(content))
  /\ similarity' = None
  /\ keyPhrases' = KeyPhrasesCall(content)

\* calculateOverallSimilarity(newContent)
CalculateOverallSimilarity(newContent) ==
  /\ similarity' = Some([ content |-> newContent,
                          result |-> calculateOverallSimilarity(newContent, existingContent) ])
  /\ keyPhrases' = KeyPhrasesCall(newContent)
  /\ UNCHANGED existingContent

\* ---------------------------------------------------------------------------
\* Several generation pipelines on one registry
\* ---------------------------------------------------------------------------

Pipelines == { "p1", "p2" }

\* getUniqueCoverPhoto calls of the pipelines together: 0..MaxShared.
MaxShared == 5

\* Categories the pipelines ask for.
SharedCategories == { K_nyc, K_brooklyn, << "Q","u","e","e","n","s","1" >> }

VARIABLES
  held,           \* pipeline -> its getUniqueCoverPhoto call (category, URL returned)
                  \*             whose URL is not yet reserved
  reservedBy,     \* history: pipeline -> set of the ids it got from getUniqueCoverPhoto
                  \*          and reserved
  fallbackTaken,  \* history: some getUniqueCoverPhoto took the random branch
  sharedCalls     \* history: number of getUniqueCoverPhoto calls made

sharedVars == << held, reservedBy, fallbackTaken, sharedCalls >>

SharedInit ==
  /\ held = [ p \in Pipelines |-> None ]
  /\ reservedBy = [ p \in Pipelines |-> {} ]
  /\ fallbackTaken = FALSE
  /\ sharedCalls = 0

\* Pipeline p calls getUniqueCoverPhoto(category): a synchronous read of the
\* registry, run to its return in one step.
PipelineGets(p, category) ==
  /\ held[p] = None
  /\ sharedCalls < MaxShared
  /\ sharedCalls' = sharedCalls + 1
  /\ \E url \in getUniqueCoverPhoto(data, category) :
       /\ held' = [ held EXCEPT ![p] = Some([ category |-> category, url |-> url ]) ]
       /\ data' = getUniqueCoverPhotoData(data, url)
  /\ fallbackTaken' = (fallbackTaken \/ TakesFallback(data, category))
  /\ UNCHANGED << reservedBy, ustaFiles, seoFiles, snapshot, lastUrl, allocated,
                  exhaustedAtCall, tookFallback, registeredSlugs,
                  droppedBySync >>

\* Pipeline p calls reserveCoverPhoto(url) with the URL it holds: one atomic
\* mutation of the registry.
PipelineReserves(p) ==
  /\ held[p] # None
  /\ data' = reserveCoverPhotoData(data, held[p][1].url)
  /\ reservedBy' = [ reservedBy EXCEPT ![p] = @ \cup { held[p][1].url[2] } ]
  /\ held' = [ held EXCEPT ![p] = None ]
  /\ UNCHANGED << fallbackTaken, sharedCalls, ustaFiles, seoFiles, snapshot, lastUrl,
                  allocated, exhaustedAtCall, tookFallback, registeredSlugs,
                  droppedBySync >>

\* ---------------------------------------------------------------------------
\* runBatchGeneration (scripts/batch-generate.ts)
\* ---------------------------------------------------------------------------

\* Entries of the calendar file: 0..MaxCalendar.
MaxCalendar == 3

\* config.maxArticlesPerRun: 1..MaxArticlesPerRun.
MaxArticlesPerRun == 2

CalendarKeywords == { "crm automation", "email automation" }

CalendarPriorities == << "high", "medium", "low" >>

CalendarStatuses == { "pending", "generating", "review", "published" }

\* What runBatchGeneration reads of a ContentCalendarEntry.
ContentCalendarEntry ==
  [ keyword : CalendarKeywords, priority : { "high", "low" }, status : CalendarStatuses ]

\* Contents of config/content-calendar.json.
CalendarInputs == UNION { [ 1..n -> ContentCalendarEntry ] : n \in 0..MaxCalendar }

\* DEFAULT_CONFIG.autoPublishThreshold
AutoPublishThreshold == Frac(85, 100)

\* uniquenessScore of the content an item's generation returns.
UniquenessScoreInputs == { Frac(3, 4), Frac(85, 100), Frac(9, 10) }

BatchConfigInputs ==
  [ maxArticlesPerRun : 1..MaxArticlesPerRun, requireHumanReview : BOOLEAN ]

VARIABLES
  calendar,        \* the array loadContentCalendar returned
  calendarFile,    \* config/content-calendar.json as last read or written
  loadedCalendar,  \* the file's content when the run started
  pendingItems,    \* the selected items, each the position of its calendar entry
  results,         \* one outcome per processed item
  itemNo,          \* the loop counter i, from 0
  batchConfig,     \* the run's BatchConfig
  batchPc          \* position of runBatchGeneration

batchVars ==
  << calendar, calendarFile, loadedCalendar, pendingItems, results, itemNo, batchConfig,
     batchPc >>

BatchInit ==
  /\ calendar = << >>
  /\ calendarFile = << >>
  /\ loadedCalendar = << >>
  /\ pendingItems = << >>
  /\ results = << >>
  /\ itemNo = 0
  /\ batchConfig = [ maxArticlesPerRun |-> 1, requireHumanReview |-> TRUE ]
  /\ batchPc = "idle"

\* calendar.findIndex(c => c.keyword === item.keyword), positions from 1, for
\* the item at position `entry`; 0 for -1.
findIndex(entries, entry) ==
  LET found == { j \in 1..Len(entries) : entries[j].keyword = entries[entry].keyword }
  IN IF found = {} THEN 0 ELSE CHOOSE j \in found : \A k \in found : j <= k

\* Positions of the pending entries of one priority, in calendar order.
PendingOfPriority(entries, priority) ==
  SelectSeq([ j \in 1..Len(entries) |-> j ],
            LAMBDA j : entries[j].status = "pending" /\ entries[j].priority = priority)

\* filter(status === 'pending'), the (stable) sort by priority and
\* slice(0, config.maxArticlesPerRun).
SelectPending(entries, maxArticlesPerRun) ==
  LET sorted == PendingOfPriority(entries, CalendarPriorities[1])
                \o PendingOfPriority(entries, CalendarPriorities[2])
                \o PendingOfPriority(entries, CalendarPriorities[3])
  IN SubSeq(sorted, 1, IF Len(sorted) < maxArticlesPerRun THEN Len(sorted)
                       ELSE maxArticlesPerRun)

\* calendar[calendarIndex].status = status, when calendarIndex !== -1.
SetStatus(entries, calendarIndex, status) ==
  IF calendarIndex = 0 THEN entries
  ELSE [ entries EXCEPT ![calendarIndex].status = status ]

\* The item the loop is at.
CurrentItem == pendingItems[itemNo + 1]

\* runBatchGeneration(config) up to the loop.  `apiKey`: ANTHROPIC_API_KEY is
\* set; `file`: the calendar file's content; `initialized`:
\* generator.initialize() returned.
runBatchGeneration(config, apiKey, file, initialized) ==
  /\ batchPc = "idle"
  /\ batchConfig' = config
  /\ IF ~apiKey
       THEN /\ batchPc' = "rejected"
            /\ UNCHANGED << calendar, calendarFile, loadedCalendar, pendingItems >>
       ELSE /\ calendar' = file
            /\ calendarFile' = file
            /\ loadedCalendar' = file
            /\ pendingItems' = SelectPending(file, config.maxArticlesPerRun)
            /\ batchPc' = IF pendingItems' = << >> THEN "done"
                          ELSE IF initialized THEN "loop" ELSE "rejected"
  /\ UNCHANGED << results, itemNo >>

\* Top of the loop body: the status update that opens the try block, and the
\* call of generateBrief.
ItemStarts ==
  /\ batchPc = "loop"
  /\ itemNo < Len(pendingItems)
  /\ calendar' = SetStatus(calendar, findIndex(calendar, CurrentItem), "generating")
  /\ calendarFile' = calendar'
  /\ batchPc' = "generating"
  /\ UNCHANGED << loadedCalendar, pendingItems, results, itemNo, batchConfig >>

\* After the item's try/catch: the rate-limiting wait unless it was the last.
AfterItem ==
  IF itemNo < Len(pendingItems) - 1 THEN "waiting" ELSE "loop"

\* generateBrief, generateContent and regenerateIfNeeded returned content of
\* that uniquenessScore: the file is written and the status updated.
ItemSucceeds(uniquenessScore) ==
  /\ batchPc = "generating"
  /\ LET shouldAutoPublish == /\ ~batchConfig.requireHumanReview
                              /\ FracLeq(AutoPublishThreshold, uniquenessScore)
         status == IF shouldAutoPublish THEN "published" ELSE "review"
     IN /\ calendar' = SetStatus(calendar, findIndex(calendar, CurrentItem), status)
        /\ results' = Append(results, status)
  /\ calendarFile' = calendar'
  /\ batchPc' = AfterItem
  /\ itemNo' = IF AfterItem = "loop" THEN itemNo + 1 ELSE itemNo
  /\ UNCHANGED << loadedCalendar, pendingItems, batchConfig >>

\* One of them threw: the catch block resets the status.
ItemFails ==
  /\ batchPc = "generating"
  /\ calendar' = SetStatus(calendar, findIndex(calendar, CurrentItem), "pending")
  /\ calendarFile' = calendar'
  /\ results' = Append(results, "pending")
  /\ batchPc' = AfterItem
  /\ itemNo' = IF AfterItem = "loop" THEN itemNo + 1 ELSE itemNo
  /\ UNCHANGED << loadedCalendar, pendingItems, batchConfig >>

\* The 5 seconds between two items have passed; i++.
WaitElapses ==
  /\ batchPc = "waiting"
  /\ batchPc' = "loop"
  /\ itemNo' = itemNo + 1
  /\ UNCHANGED << calendar, calendarFile, loadedCalendar, pendingItems, results, batchConfig >>

\* The loop is left: summary and batch log.
BatchCompletes ==
  /\ batchPc = "loop"
  /\ itemNo >= Len(pendingItems)
  /\ batchPc' = "done"
  /\ UNCHANGED << calendar, calendarFile, loadedCalendar, pendingItems, results, itemNo,
                  batchConfig >>

\* ---------------------------------------------------------------------------
\* Specifications
\* ---------------------------------------------------------------------------

vars == << registryVars, genVars, templateVars, scoreVars, similarityVars, sharedVars, batchVars >>

Init == RegistryInit /\ GenInit /\ TemplateInit /\ ScoreInit /\ SimilarityInit /\ SharedInit /\ BatchInit

\* Photo allocation alone: getUniqueCoverPhoto + reserveCoverPhoto steps on one registry.
NextPhoto ==
  /\ \/ \E category \in CategoryInputs : GetUniqueCoverPhoto(category)
     \/ ReserveReturned
  /\ UNCHANGED << genVars, templateVars, scoreVars, similarityVars, sharedVars, batchVars >>

SpecPhoto == Init /\ [][NextPhoto]_vars

\* The registry against the two content trees.
NextRegistry ==
  /\ \/ \E t \in TreeInputs : \E i \in 1..Len(t.usta) : WriteUstaFile(t.usta[i])
     \/ \E t \in TreeInputs : \E i \in 1..Len(t.seo) : WriteSeoFile(t.seo[i])
     \/ syncWithFilesystem
     \/ NewBlogRegistry
     \/ save
     \/ \E blog \in BlogInputs : registerBlog(blog)
     \/ \E photoUrl \in UrlInputs : reserveCoverPhoto(photoUrl)
  /\ UNCHANGED << genVars, templateVars, scoreVars, similarityVars, sharedVars, batchVars >>

SpecRegistry == Init /\ [][NextRegistry]_vars

\* Lengths of the data-points array of a response: one short of
\* CONFIG.requiredUniqueDataPoints, and just enough.
DataPointCounts ==
  { CONFIG_requiredUniqueDataPoints - 1, CONFIG_requiredUniqueDataPoints }

\* Steps inside generateContent and regenerateIfNeeded.
ContentAndRegenSteps ==
  \/ /\ pc = "content_request"
     /\ \E verdict \in Verdicts(genKind, cur.genDataPoints) :
          \E resp \in LlmOutcomes(genKind) : \E content \in ContentInputs :
            ContentResponds(resp, content, verdict)
  \/ \E resp \in LlmOutcomes(genKind) : QualityResponds(resp)
  \/ RegenLoop
  \/ \E resp \in LlmOutcomes(genKind) : \E dataPoints \in DataPointCounts :
       AlternativeDataPointsResponds(resp, dataPoints)

\* The generation pipeline of one generator: brief, content, regeneration.
NextGen ==
  /\ \/ \E in \in BriefInputs : generateBrief(in[1], in[2])
     \/ \E resp \in LlmOutcomes(genKind) : BriefDifferentiatorsResponds(resp)
     \/ \E resp \in LlmOutcomes(genKind) : \E dataPoints \in DataPointCounts :
          BriefDataPointsResponds(resp, dataPoints)
     \/ \E resp \in LlmOutcomes(genKind) : BriefInsightResponds(resp)
     \/ generateContent
     \/ PipelineAccepts
     \/ PipelineRegenerates
     \/ ContentAndRegenSteps
  /\ UNCHANGED << registryVars, templateVars, scoreVars, similarityVars, sharedVars, batchVars >>

SpecGen == Init /\ [][NextGen]_vars

\* regenerateIfNeeded called on its own, any candidate, any maxAttempts.
NextRegen ==
  /\ \/ \E initialPasses \in BOOLEAN : \E maxAttempts \in 0..MaxAttemptsArg :
          \E dataPoints \in 0..MaxDataPoints :
            regenerateIfNeeded(initialPasses, maxAttempts, dataPoints)
     \/ ContentAndRegenSteps
  /\ UNCHANGED << registryVars, templateVars, scoreVars, similarityVars, sharedVars, batchVars >>

\* Every pending request ends (with text or with an error) and the loop keeps
\* running once entered.
SpecRegen == Init /\ [][NextRegen]_vars /\ WF_vars(ContentAndRegenSteps /\ UNCHANGED << registryVars, templateVars, scoreVars, similarityVars, sharedVars, batchVars >>)

\* A request is pending at these positions.
LlmPending ==
  { "brief_differentiators", "brief_dataPoints", "brief_insight",
    "content_request", "quality_request", "altdata_request" }

\* The timer of the pending request fires.
LlmTimesOut ==
  /\ TimeoutConfigured(genKind)
  /\ \/ BriefDifferentiatorsResponds("timeout")
     \/ BriefDataPointsResponds("timeout", 0)
     \/ BriefInsightResponds("timeout")
     \/ ContentResponds("timeout", "missing", [ passesThreshold |-> FALSE, hasIssues |-> TRUE ])
     \/ QualityResponds("timeout")
     \/ AlternativeDataPointsResponds("timeout", 0)
  /\ UNCHANGED << registryVars, templateVars, scoreVars, similarityVars, sharedVars, batchVars >>

\* Steps the program takes by itself, no request pending.
ProgramSteps ==
  /\ generateContent \/ PipelineAccepts \/ PipelineRegenerates \/ RegenLoop
  /\ UNCHANGED << registryVars, templateVars, scoreVars, similarityVars, sharedVars, batchVars >>

\* The pipeline with a server that may never answer: the program keeps
\* running and an armed timer fires, but no response is promised.
SpecLlm == Init /\ [][NextGen]_vars /\ WF_vars(LlmTimesOut) /\ WF_vars(ProgramSteps)

\* validateTemplateSelection on arbitrary arguments.
InitValidate ==
  /\ RegistryInit
  /\ GenInit
  /\ templateHistory \in Histories
  /\ templateValidation = None
  /\ ScoreInit
  /\ SimilarityInit
  /\ SharedInit /\ BatchInit

NextValidate ==
  /\ \E selectedTemplate \in TemplateInputs : ValidateTemplate(selectedTemplate)
  /\ UNCHANGED << registryVars, genVars, scoreVars, similarityVars, sharedVars, batchVars >>

SpecValidate == InitValidate /\ [][NextValidate]_vars

\* A template history kept by a publisher that appends only accepted templates.
NextRotation ==
  /\ \/ \E selectedTemplate \in TemplateInputs : ValidateTemplate(selectedTemplate)
     \/ PublishTemplate
  /\ UNCHANGED << registryVars, genVars, scoreVars, similarityVars, sharedVars, batchVars >>

SpecRotation == Init /\ [][NextRotation]_vars

\* The two scorers of a generator on arbitrary arguments.
InitScore ==
  /\ RegistryInit
  /\ GenInit
  /\ TemplateInit
  /\ scoreIn \in { Some(in) : in \in ScoreInputs(genKind) }
  /\ scoreOut = None
  /\ SimilarityInit
  /\ SharedInit /\ BatchInit

NextScore ==
  /\ EvaluateScore
  /\ UNCHANGED << registryVars, genVars, templateVars, similarityVars, sharedVars, batchVars >>

SpecScore == InitScore /\ [][NextScore]_vars

\* A UniquenessEngine: documents are loaded into the corpus, contents scored.
NextSimilarity ==
  /\ \/ \E slug \in CorpusSlugs : \E content \in DocInputs : LoadDocument(slug, content)
     \/ \E content \in DocInputs : CalculateOverallSimilarity(content)
  /\ UNCHANGED << registryVars, genVars, templateVars, scoreVars, sharedVars, batchVars >>

SpecSimilarity == Init /\ [][NextSimilarity]_vars

\* Pipelines sharing one registry: their calls interleave, each call is atomic.
NextShared ==
  /\ \/ \E p \in Pipelines : \E category \in SharedCategories : PipelineGets(p, category)
     \/ \E p \in Pipelines : PipelineReserves(p)
  /\ UNCHANGED << genVars, templateVars, scoreVars, similarityVars, batchVars >>

SpecShared == Init /\ [][NextShared]_vars

\* One run of scripts/batch-generate.ts.
NextBatch ==
  /\ \/ /\ batchPc = "idle"
        /\ \E config \in BatchConfigInputs : \E apiKey \in BOOLEAN :
             \E file \in CalendarInputs : \E initialized \in BOOLEAN :
               runBatchGeneration(config, apiKey, file, initialized)
     \/ ItemStarts
     \/ \E uniquenessScore \in UniquenessScoreInputs : ItemSucceeds(uniquenessScore)
     \/ ItemFails
     \/ WaitElapses
     \/ BatchCompletes
  /\ UNCHANGED << registryVars, genVars, templateVars, scoreVars, similarityVars, sharedVars >>

SpecBatch == Init /\ [][NextBatch]_vars

Next ==
  \/ NextPhoto \/ NextRegistry \/ NextGen \/ NextRegen \/ NextRotation \/ NextScore
  \/ NextSimilarity \/ NextShared \/ NextBatch

Spec == Init /\ [][Next]_vars

\* ===========================================================================
\* Properties of the registry
\* ===========================================================================

BlockedIds == Range(BLOCKED_PHOTO_IDS)

\* C1 (as claimed): in a run of getUniqueCoverPhoto + reserveCoverPhoto steps
\* during which no call found every bucket of the library used up, the ids
\* returned are pairwise distinct and none is block-listed.
C1_DistinctUnlessAllBucketsExhausted ==
  ~exhaustedAtCall =>
     /\ NoDuplicates(allocated)
     /\ \A i \in 1..Len(allocated) : allocated[i] \notin BlockedIds

\* C26 (as claimed): with every call on the shared registry atomic and
\* serialized, no two pipelines that each call getUniqueCoverPhoto and then
\* reserve the result end up with the same photo id (in runs where no call
\* had to take the random fallback branch).
C26_NoPhotoSharedByPipelines ==
  ~fallbackTaken =>
    \A p, q \in Pipelines : p # q => reservedBy[p] \cap reservedBy[q] = {}

\* C27: getUniqueCoverPhoto only reads the registry: a call leaves
\* usedCoverPhotos and publishedBlogs as they were, and when it found a free
\* photo in a tried bucket, a call with the same category made right after it
\* (no reserveCoverPhoto or registerBlog in between) returns the same photo.
C27_GetUniqueCoverPhotoOnlyReads ==
  [][\A p \in Pipelines :
       (held[p] = None /\ held'[p] # None)
         => /\ data'.usedCoverPhotos = data.usedCoverPhotos
            /\ data'.publishedBlogs = data.publishedBlogs
            /\ ~TakesFallback(data, held'[p][1].category)
                 => getUniqueCoverPhoto(data', held'[p][1].category) = { held'[p][1].url }]_vars

\* C27 witness: on a registry with photos already reserved, two pipelines
\* called getUniqueCoverPhoto with the same category one after the other and
\* hold the same photo, found in a tried bucket.
C27_Witness_SamePhotoTwice ==
  /\ held["p1"] # None
  /\ held["p2"] # None
  /\ held["p1"] = held["p2"]
  /\ Len(data.usedCoverPhotos) >= 2
  /\ ~fallbackTaken
  /\ ~TakesFallback(data, held["p1"][1].category)

\* The records extractBlogInfo recognises in the two trees.
RecordsInFiles ==
  { extractBlogInfo(ustaFiles[i], "usta-react")[1] :
      i \in { k \in 1..Len(ustaFiles) :
                /\ ustaFiles[k].named = "post"
                /\ extractBlogInfo(ustaFiles[k], "usta-react") # None } }
    \cup { extractBlogInfo(seoFiles[i], "seo")[1] :
             i \in { k \in 1..Len(seoFiles) : extractBlogInfo(seoFiles[k], "seo") # None } }

\* The photo ids found in recognised files.
PhotosInFiles == { r.coverPhotoId : r \in RecordsInFiles } \ { "" }

\* C28: syncWithFilesystem (called directly or by the constructor) rebuilds
\* the index from the two content trees alone: when it returns,
\* usedCoverPhotos is exactly the duplicate-free set of the photo ids found in
\* recognised files and publishedBlogs holds only records extracted from
\* files, so nothing that was only in memory or in the saved snapshot remains.
C28_SyncRebuildsFromFilesAlone ==
  [][(syncWithFilesystem \/ NewBlogRegistry)
       => /\ NoDuplicates(data'.usedCoverPhotos)
          /\ Range(data'.usedCoverPhotos) = PhotosInFiles
          /\ \A i \in 1..Len(data'.publishedBlogs) : data'.publishedBlogs[i] \in RecordsInFiles
          /\ \A b \in BlogInputs :
               (\A r \in RecordsInFiles : normalizeSlug(r.slug) # normalizeSlug(b.slug))
                 => ~hasSlug(data', b.slug)]_vars

\* C28 witness: a sync over trees that hold a recognised file has just
\* removed a photo id and a slug that no file backs.
C28_Witness_UnbackedEntriesDropped ==
  /\ droppedBySync.photo
  /\ droppedBySync.slug
  /\ RecordsInFiles # {}
  /\ Range(data.usedCoverPhotos) = PhotosInFiles
  /\ PhotosInFiles # {}

\* C2: getUniqueCoverPhoto never returns a block-listed photo id: neither the
\* URL a call returned nor any URL a call could return in the current state,
\* for every category, the random fallback branch included.
C2_NeverReturnsBlocked ==
  /\ lastUrl # None => PhotoIdMatch(lastUrl[1]) \notin { Some(b) : b \in BlockedIds }
  /\ \A category \in CategoryInputs :
       \A url \in getUniqueCoverPhoto(data, category) :
         PhotoIdMatch(url) \notin { Some(b) : b \in BlockedIds }

\* C2 witness: a call took the random fallback branch and returned a URL.
C2_Witness_FallbackReturned ==
  /\ lastUrl # None
  /\ tookFallback
  /\ PhotoIdMatch(lastUrl[1]) # None

\* C3 (as claimed): no two records of publishedBlogs have the same slug.
C3_SlugsUnique ==
  \A i, j \in 1..Len(data.publishedBlogs) :
    i # j => data.publishedBlogs[i].slug # data.publishedBlogs[j].slug

\* C4 (as claimed): no two published records share a non-empty coverPhotoId,
\* and no published record has a block-listed coverPhotoId.
C4_PhotosUniqueAndNotBlocked ==
  /\ \A i, j \in 1..Len(data.publishedBlogs) :
       (i # j /\ data.publishedBlogs[i].coverPhotoId # "")
         => data.publishedBlogs[i].coverPhotoId # data.publishedBlogs[j].coverPhotoId
  /\ \A i \in 1..Len(data.publishedBlogs) :
       data.publishedBlogs[i].coverPhotoId \notin BlockedIds

UpperLetters == { "A", "B", "C", "N", "Q", "Y" }

\* s and t differ only in letter case and in characters that are neither
\* letters nor digits (hyphens count as punctuation).
DiffersOnlyInCaseOrPunctuation(s, t) ==
  LET alnum == LowerLetters \cup UpperLetters \cup Digits
      a == KeepChars(s, alnum)
      b == KeepChars(t, alnum)
  IN /\ Len(a) = Len(b)
     /\ \A i \in 1..Len(a) : toLowerCaseChar(a[i]) = toLowerCaseChar(b[i])

\* s and t differ only in letter case and in characters other than letters,
\* digits and hyphens.
DiffersOnlyInCaseOrNonHyphenPunctuation(s, t) ==
  LET kept == LowerLetters \cup UpperLetters \cup Digits \cup { "-" }
      a == KeepChars(s, kept)
      b == KeepChars(t, kept)
  IN /\ Len(a) = Len(b)
     /\ \A i \in 1..Len(a) : toLowerCaseChar(a[i]) = toLowerCaseChar(b[i])

\* C5 (as claimed): after registerBlog of slug s, hasSlug is true of s and of
\* every variant of s differing only in letter case or punctuation, until the
\* next sync.
C5_EveryCaseOrPunctuationVariantFound ==
  \A s \in registeredSlugs : \A t \in SlugInputs :
    DiffersOnlyInCaseOrPunctuation(s, t) => hasSlug(data, t)

\* C5 (amended): after registerBlog of slug s, hasSlug is true of s and of
\* every variant of s differing only in letter case or in characters other
\* than letters, digits and hyphens, until the next sync.
C5_VariantsKeepingHyphensFound ==
  \A s \in registeredSlugs : \A t \in SlugInputs :
    DiffersOnlyInCaseOrNonHyphenPunctuation(s, t) => hasSlug(data, t)

\* C5 witness: "A-B" was registered into a registry that did not have it and
\* its variant "a-b!" (never registered, in no file synced) is found.
C5_Witness_VariantFound ==
  /\ S_A_B \in registeredSlugs
  /\ Len(data.publishedBlogs) = 1
  /\ data.publishedBlogs[1].slug = S_A_B
  /\ data.publishedBlogs[1].source = "seo"
  /\ ustaFiles = <<>> /\ seoFiles = <<>>
  /\ hasSlug(data, S_abx)

\* C6: registerBlog is idempotent and reserves the photo: in every reachable
\* registry, registering a document a second time leaves publishedBlogs and
\* usedCoverPhotos as the first registration left them, and after the
\* registration isPhotoUsed is true of the document's coverPhotoId.
C6_RegisterIdempotentAndReserves ==
  \A blog \in BlogInputs :
    LET once == registerBlogData(data, blog)
    IN /\ registerBlogData(once, blog) = once
       /\ blog.coverPhotoId # "" => isPhotoUsed(once, blog.coverPhotoId)

\* C6 witness: a document with a photo has been registered (its record is the
\* last one, its photo is used) and registering it again changes nothing.
C6_Witness_RegisteredTwice ==
  \E blog \in BlogInputs :
    /\ blog.coverPhotoId = P_SKYLINE
    /\ blog.slug \in registeredSlugs
    /\ Len(data.publishedBlogs) > 0
    /\ data.publishedBlogs[Len(data.publishedBlogs)] =
         [ slug |-> blog.slug, coverPhotoId |-> blog.coverPhotoId, source |-> "seo" ]
    /\ Includes(data.usedCoverPhotos, blog.coverPhotoId)
    /\ registerBlogData(data, blog) = data

\* ===========================================================================
\* Properties of the generators
\* ===========================================================================

\* C7: each topic uses each content angle at most once: over any sequence of
\* generateBrief calls on one generator, no two briefs returned for the same
\* topic carry the same contentAngle (whatever the intents asked for).
C7_AngleAtMostOncePerTopic ==
  \A topic \in Topics : \A angle \in Angles : returnedCount[topic][angle] <= 1

\* C7 witness: two briefs were returned for topic X, with two different
\* angles, and a third generateBrief for X is in progress.
C7_Witness_TwoBriefsSameTopic ==
  /\ \E a, b \in Angles :
       a # b /\ returnedCount["X"][a] = 1 /\ returnedCount["X"][b] = 1
  /\ pc = "brief_insight"
  /\ cur.topic = "X"

\* Every angle of the list of `intent` is registered as used for `topic`.
AllAnglesUsed(topic, intent) ==
  Range(CONTENT_ANGLES(genKind, intent)) \subseteq usedAngles[topic]

\* C8: once all N angles of an intent's list are registered as used for a
\* topic, getAvailableAngles returns the empty sequence, and a generateBrief
\* for that topic and intent ends at once with 'angles exhausted': no LLM
\* request is issued, nothing is pending afterwards, the used set is untouched.
C8_ExhaustedTopicFailsWithoutLlm ==
  /\ [](\A in \in BriefInputs :
          AllAnglesUsed(in[1], in[2])
            => getAvailableAngles(genKind, usedAngles, in[1], in[2]) = << >>)
  /\ [][\A in \in BriefInputs :
          (AllAnglesUsed(in[1], in[2]) /\ generateBrief(in[1], in[2]))
            => /\ lastOutcome' = "angles-exhausted"
               /\ pc' = "idle"
               /\ briefLlmCalls' = 0
               /\ usedAngles' = usedAngles]_vars

\* C8 witness: generateBrief for topic X has just failed with 'angles
\* exhausted', every angle of the intent's list being used for X.
C8_Witness_Exhausted ==
  /\ lastOutcome = "angles-exhausted"
  /\ cur.topic = "X"
  /\ AllAnglesUsed("X", cur.intent)
  /\ Cardinality(usedAngles["X"]) >= AngleCap
  /\ briefLlmCalls = 0
  /\ pc = "idle"

\* C9 (as claimed): a generation that fails leaves the used angles of its
\* topic exactly as they were when the generation started.
C9_FailureLeavesUsedAnglesUnchanged ==
  lastOutcome = "failed" => usedAngles[cur.topic] = cur.usedAtStart

VersionSuffix(kind, i) ==
  IF kind = "anthropic" THEN << "-v", ToString(i + 1) >> ELSE << "-variant-", ToString(i) >>

\* C25: within one regenerateIfNeeded run the contentAngle given to
\* generateContent at regeneration attempt i is the original brief's angle
\* followed by the version suffix of attempt i; the angles of the attempts are
\* pairwise distinct and differ from the original angle, and the caller's
\* brief keeps its angle.
C25_RegenerationAnglesDistinct ==
  cur.inRegen =>
    /\ cur.briefAngle = << cur.angle >>
    /\ Len(cur.genAngles) = cur.genCalls
    /\ \A i \in 1..Len(cur.genAngles) :
         /\ cur.genAngles[i] = << cur.angle >> \o VersionSuffix(genKind, i)
         /\ cur.genAngles[i] # << cur.angle >>
    /\ NoDuplicates(cur.genAngles)

\* C25 witness: a regenerateIfNeeded run with maxAttempts = 3 has ended after
\* three generateContent calls with three different angles.
C25_Witness_ThreeAngles ==
  /\ cur.inRegen
  /\ pc = "idle"
  /\ cur.maxAttempts = 3
  /\ Len(cur.genAngles) = 3
  /\ Cardinality(Range(cur.genAngles)) = 3

\* C29: in OllamaContentGenerator a brief with fewer than
\* CONFIG.requiredUniqueDataPoints data points never passes: every candidate
\* scored from it has a non-empty issues list and passesThreshold = false, and
\* a regenerateIfNeeded run on its failing candidate that returns has made
\* exactly maxAttempts generateContent calls and returns a failing candidate.
C29_ShortBriefNeverPasses ==
  (genKind = "ollama" /\ cur.dataPoints < CONFIG_requiredUniqueDataPoints) =>
    /\ cur.scored => (cur.hasIssues /\ ~cur.passes)
    /\ (cur.inRegen /\ ~cur.initialPasses /\ pc = "idle" /\ lastOutcome = "finalized")
         => /\ cur.genCalls = cur.maxAttempts
            /\ cur.attempts = cur.maxAttempts
            /\ ~cur.passes
            /\ cur.hasIssues

\* C29 witness: OllamaContentGenerator.regenerateIfNeeded with maxAttempts = 2
\* on a brief of two data points has returned the failing candidate of its
\* second regeneration.
C29_Witness_ShortBriefExhausted ==
  /\ genKind = "ollama"
  /\ cur.dataPoints = 2
  /\ cur.inRegen
  /\ pc = "idle"
  /\ lastOutcome = "finalized"
  /\ cur.maxAttempts = 2
  /\ cur.genCalls = 2
  /\ cur.scored
  /\ cur.hasIssues
  /\ ~cur.passes

\* The status the claim gives the entry of the k-th selected item: the outcome
\* of its processing once processed, 'generating' while it is processed,
\* 'pending' before.
ExpectedStatus(k) ==
  IF k <= Len(results) THEN results[k]
  ELSE IF batchPc = "generating" /\ k = itemNo + 1 THEN "generating"
  ELSE "pending"

\* C30: runBatchGeneration processes the selected pending items one at a
\* time; the calendar entry of each selected item is 'pending' until its turn,
\* 'generating' while it is processed, and then 'review' or 'published' after
\* a success or 'pending' after a failure; a failure does not stop the loop
\* (a run that ends has processed every selected item), and when the run ends
\* it has left no entry in 'generating'.
C30_EachItemsEntryFollowsItsItem ==
  batchPc \in { "loop", "generating", "waiting", "done" } =>
    /\ calendarFile = calendar
    /\ \A k \in 1..Len(pendingItems) :
         calendar[pendingItems[k]].status = ExpectedStatus(k)
    /\ batchPc = "done" =>
         /\ Len(results) = Len(pendingItems)
         /\ \A j \in 1..Len(calendar) :
              calendar[j].status = "generating" => loadedCalendar[j].status = "generating"

\* C11: strict policy.  Whatever ContentGenerator.regenerateIfNeeded returns
\* passes the threshold; when the loop is left with a failing candidate it
\* throws the below-threshold error instead of returning, and the number of
\* attempts the message names (maxAttempts) is the number of attempts made.
C11_StrictReturnsOnlyPassing ==
  /\ []((genKind = "anthropic" /\ cur.inRegen /\ pc = "idle")
          => /\ lastOutcome = "finalized" => cur.passes
             /\ cur.failure = "below-threshold"
                  => (~cur.passes /\ cur.attempts = cur.maxAttempts))
  /\ [][(genKind = "anthropic" /\ pc = "regen_loop" /\ ~cur.passes
           /\ cur.attempts >= cur.maxAttempts)
          => (pc' = "idle" /\ lastOutcome' = "failed"
              /\ cur'.failure = "below-threshold")]_vars

\* C11 witness: ContentGenerator.regenerateIfNeeded with maxAttempts = 3 has
\* thrown the below-threshold error after three regenerations that all failed.
C11_Witness_StrictThrew ==
  /\ genKind = "anthropic"
  /\ pc = "idle"
  /\ lastOutcome = "failed"
  /\ cur.failure = "below-threshold"
  /\ cur.inRegen
  /\ cur.maxAttempts = 3
  /\ cur.genCalls = 3

\* C12: lenient policy.  When OllamaContentGenerator.regenerateIfNeeded leaves
\* the loop with a failing candidate it returns that candidate (the one of the
\* last regeneration), passesThreshold false, without throwing.
C12_LenientReturnsLastCandidate ==
  /\ [][(genKind = "ollama" /\ pc = "regen_loop" /\ ~cur.passes
           /\ cur.attempts >= cur.maxAttempts)
          => (pc' = "idle" /\ lastOutcome' = "finalized" /\ cur' = cur)]_vars
  /\ []((genKind = "ollama" /\ cur.inRegen) => cur.failure # "below-threshold")

\* C12 witness: OllamaContentGenerator.regenerateIfNeeded with maxAttempts = 2
\* has returned the failing candidate of its second regeneration.
C12_Witness_LenientReturned ==
  /\ genKind = "ollama"
  /\ pc = "idle"
  /\ lastOutcome = "finalized"
  /\ cur.inRegen
  /\ ~cur.passes
  /\ cur.maxAttempts = 2
  /\ cur.genCalls = 2

\* C13 (as claimed): on every generation path a candidate whose content is
\* missing or under 500 characters is never scored: generateContent fails with
\* the too-short error and returns nothing.
C13_ShortContentNeverScored ==
  /\ cur.scored => cur.content = "long"
  /\ cur.content \in { "missing", "short" }
       => (pc = "idle" /\ lastOutcome = "failed" /\ cur.failure = "too-short")

\* C14 (as claimed): a content response that does not parse as JSON never
\* fails generateContent by itself: the candidate is the degraded artifact
\* (raw text as content), and the only failure is the length guard's.
C14_UnparsableContentDegrades ==
  cur.resp = "text"
    => /\ cur.degraded
       /\ cur.failure \in { "", "too-short" }
       /\ cur.failure = "too-short" => cur.content # "long"

\* C15 (as claimed): every LLM request eventually ends, with a response or
\* with the timeout error of its timer; a timeout is a failure of its own (it
\* ends the generation, regeneration included) and no candidate is scored or
\* counted for it.
C15_EveryLlmCallEnds ==
  /\ \A p \in LlmPending : (pc = p) ~> (pc # p)
  /\ [](cur.failure = "timeout"
          => (pc = "idle" /\ lastOutcome = "failed" /\ ~cur.scored))

\* C16 (as claimed): whenever registerBlog, reserveCoverPhoto or
\* syncWithFilesystem has returned, the snapshot file holds the publishedBlogs
\* and usedCoverPhotos of the record in memory.
C16_SnapshotMatchesRecord ==
  /\ snapshot.publishedBlogs = data.publishedBlogs
  /\ snapshot.usedCoverPhotos = data.usedCoverPhotos

\* ===========================================================================
\* Properties of the template rotation
\* ===========================================================================

\* The entries of the history at its last two positions (fewer when shorter).
LastTwoEntries(h) == { h[i] : i \in { j \in 1..Len(h) : j > Len(h) - 2 } }

\* C17: validateTemplateSelection(candidate, recentHistory) is valid exactly
\* for the members of the 6-template set that are not among the last two
\* entries of recentHistory (fewer when it is shorter); its excluded list holds
\* exactly those entries, and the result is determined by the two arguments.
C17_ExcludesExactlyLastTwo ==
  templateValidation # None =>
    LET v == templateValidation[1]
    IN /\ Cardinality(Range(TEMPLATE_IDS)) = 6
       /\ v.valid <=> (v.selectedTemplate \in Range(TEMPLATE_IDS) \ LastTwoEntries(v.recentHistory))
       /\ Range(v.excluded) = LastTwoEntries(v.recentHistory)
       /\ Range(v.available) = Range(TEMPLATE_IDS) \ LastTwoEntries(v.recentHistory)
       /\ v = validateTemplateSelection(v.selectedTemplate, templateHistory)

\* C17 witness: with a history of three different templates, the template of
\* the second-to-last entry was rejected.
C17_Witness_SecondToLastRejected ==
  /\ templateValidation # None
  /\ Len(templateHistory) = 3
  /\ NoDuplicates(templateHistory)
  /\ templateHistory[1] \in Range(TEMPLATE_IDS)
  /\ templateValidation[1].selectedTemplate = templateHistory[2]
  /\ templateValidation[1].selectedTemplate \in Range(TEMPLATE_IDS)
  /\ ~templateValidation[1].valid

\* C18: when only accepted templates are appended, no entry of the history
\* equals either of the two entries before it, and at every step at least 4 of
\* the 6 templates are accepted against the history so far.
C18_RotationNeverRepeatsAndNeverStarves ==
  /\ \A i \in 1..Len(templateHistory) : \A j \in 1..Len(templateHistory) :
       (j < i /\ i - j <= 2) => templateHistory[i] # templateHistory[j]
  /\ Cardinality({ t \in Range(TEMPLATE_IDS) :
                     validateTemplateSelection(t, templateHistory).valid }) >= 4

\* C18 witness: three templates were published and exactly 4 are available.
C18_Witness_ThreePublished ==
  /\ Len(templateHistory) = 3
  /\ Cardinality({ t \in Range(TEMPLATE_IDS) :
                     validateTemplateSelection(t, templateHistory).valid }) = 4

\* ===========================================================================
\* Properties of the scorers
\* ===========================================================================

InUnitInterval(f) == FracLeq(FracZero, f) /\ FracLeq(f, FracOne)

\* Every criterion score of the response that is present is within 0.0-1.0.
CriteriaInRange(in) ==
  \A i \in 1..Len(QualityCriteria) : in.scores[i] # None => InUnitInterval(in.scores[i][1])

\* The arguments are valid: a similarity within [0,1] and, for
\* ContentGenerator.evaluateQuality, criterion scores within 0.0-1.0.
ValidScoreInput(kind, in) ==
  IF in.fn = "evaluateDifferentiation" THEN InUnitInterval(in.maxSimilarity)
  ELSE kind = "anthropic" => CriteriaInRange(in)

CorpusContains(X) ==
  \E i \in 1..Len(existingContent) : existingContent[i].phrases = extractKeyPhrases(X)

NormalizedTokens(content) ==
  SelectSeq([ i \in 1..Len(content) |-> toLowerCaseWord(content[i]) ],
            LAMBDA w : WordLength(w) > 3)

\* C21 (as claimed): extractKeyPhrases returns, in order of occurrence, every
\* contiguous window of exactly 4 normalized tokens: k >= 4 tokens yield k - 3
\* phrases, fewer than 4 tokens yield the empty sequence.
C21_EveryWindowOfFour ==
  keyPhrases # None =>
    LET tokens == NormalizedTokens(keyPhrases[1].content)
        phrases == keyPhrases[1].phrases
        k == Len(tokens)
    IN /\ Len(phrases) = IF k >= 4 THEN k - 3 ELSE 0
       /\ \A i \in 1..Len(phrases) : phrases[i] = SubSeq(tokens, i, i + 3)

\* |candidate phrases \cap stored phrases| / max(|candidate phrases|, 1)
OverlapRatio(candidate, stored) ==
  LET size == Cardinality(Range(candidate))
  IN Frac(Cardinality(Range(candidate) \cap Range(stored)), IF size > 1 THEN size ELSE 1)

\* The overlap ratios of a content against the stored documents, in Map order.
Ratios(content) ==
  [ i \in 1..Len(existingContent) |->
      OverlapRatio(extractKeyPhrases(content), existingContent[i].phrases) ]

\* r is the largest of the ratios.
IsMaximum(r, ratios) ==
  /\ \E i \in 1..Len(ratios) : ratios[i] = r
  /\ \A i \in 1..Len(ratios) : FracLeq(ratios[i], r)

\* key is the key of the first document in Map order whose ratio is r.
FirstKeyAt(key, r, ratios) ==
  \E i \in 1..Len(ratios) :
    /\ existingContent[i].slug = key
    /\ ratios[i] = r
    /\ \A j \in 1..(i - 1) : ratios[j] # r

\* C22 (as claimed): calculateOverallSimilarity returns the maximum of the
\* overlap ratios over the stored documents together with the key of the first
\* document (in load order) that attains it, and (0, "") when no document is
\* loaded.
C22_MaximumWithFirstKey ==
  similarity # None =>
    LET r == similarity[1].result
        ratios == Ratios(similarity[1].content)
    IN IF existingContent = << >>
         THEN r = [ maxSimilarity |-> FracZero, mostSimilarTo |-> "" ]
         ELSE /\ IsMaximum(r.maxSimilarity, ratios)
              /\ FirstKeyAt(r.mostSimilarTo, r.maxSimilarity, ratios)

\* C22 (amended): calculateOverallSimilarity returns the maximum of the
\* overlap ratios over the stored documents (0 when none is loaded); when that
\* maximum is above 0 it names the first document in Map order that attains
\* it, and when it is 0 it names no document ("").
C22_MaximumWithFirstKeyIfPositive ==
  similarity # None =>
    LET r == similarity[1].result
        ratios == Ratios(similarity[1].content)
    IN /\ IF existingContent = << >> THEN r.maxSimilarity = FracZero
          ELSE IsMaximum(r.maxSimilarity, ratios)
       /\ IF r.maxSimilarity = FracZero THEN r.mostSimilarTo = ""
          ELSE FirstKeyAt(r.mostSimilarTo, r.maxSimilarity, ratios)

\* C22 witness: two stored documents tie at the maximum (both hold the one
\* phrase of the content scored) and the first of them is named.
C22_Witness_TieFirstWins ==
  /\ similarity # None
  /\ Len(existingContent) = 2
  /\ existingContent[1].phrases # existingContent[2].phrases
  /\ Ratios(similarity[1].content) = << FracOne, FracOne >>
  /\ similarity[1].result.maxSimilarity = FracOne
  /\ similarity[1].result.mostSimilarTo = existingContent[1].slug

\* ===========================================================================
\* Properties of the differentiation report
\* ===========================================================================

\* A call of evaluateDifferentiation has returned.
DifferentiationReturned ==
  scoreOut # None /\ scoreIn[1].fn = "evaluateDifferentiation"

FactRatio(report, in) ==
  Frac(report.uniqueFactCount, IF Len(in.included) > 1 THEN Len(in.included) ELSE 1)

\* 0.4 * angleScore + 0.35 * dataScore + 0.25 * insightScore
WeightedScore(report) ==
  FracAdd(FracMul(Frac(4, 10), report.angleScore),
          FracAdd(FracMul(Frac(35, 100), report.dataScore),
                  FracMul(Frac(25, 100), report.insightScore)))

\* C24 (as claimed): angleScore = 1 - maxSimilarity, dataScore =
\* uniqueFactCount / max(number of data points, 1), insightScore = 1 when the
\* insight's leading characters occur in the text and 0.5 otherwise, and
\* overallScore = 0.4*angleScore + 0.35*dataScore + 0.25*insightScore.
C24_ScoresWithHalfForMissingInsight ==
  DifferentiationReturned =>
    LET in == scoreIn[1]
        report == scoreOut[1]
    IN /\ report.uniqueFactCount = Cardinality({ i \in 1..Len(in.included) : in.included[i] })
       /\ report.angleScore = FracSub(FracOne, in.maxSimilarity)
       /\ report.dataScore = FactRatio(report, in)
       /\ report.insightScore = IF in.insightIncluded THEN FracOne ELSE Frac(1, 2)
       /\ report.overallScore = WeightedScore(report)

\* C24 (amended): as claimed, except that the insightScore of a text without
\* the insight's leading characters is 0.5 in OllamaContentGenerator and 0 in
\* ContentGenerator.
C24_ScoresPerGenerator ==
  DifferentiationReturned =>
    LET in == scoreIn[1]
        report == scoreOut[1]
    IN /\ report.uniqueFactCount = Cardinality({ i \in 1..Len(in.included) : in.included[i] })
       /\ report.angleScore = FracSub(FracOne, in.maxSimilarity)
       /\ report.dataScore = FactRatio(report, in)
       /\ report.insightScore = IF in.insightIncluded THEN FracOne
                                ELSE IF genKind = "ollama" THEN Frac(1, 2) ELSE FracZero
       /\ report.overallScore = WeightedScore(report)

\* C24 witness: ContentGenerator scored a text without the insight, 2 of 3
\* facts found, similarity 1/3: overallScore = 0.4 * 2/3 + 0.35 * 2/3 = 1/2.
C24_Witness_MissingInsightScored ==
  /\ DifferentiationReturned
  /\ genKind = "anthropic"
  /\ ~scoreIn[1].insightIncluded
  /\ scoreIn[1].maxSimilarity = Frac(1, 3)
  /\ Len(scoreIn[1].included) = 3
  /\ scoreOut[1].uniqueFactCount = 2
  /\ scoreOut[1].insightScore = FracZero
  /\ scoreOut[1].overallScore = Frac(1, 2)

====
